---- MODULE Spec2Model ----
(***************************************************************************)
(* CLHT string-key hash tables (clht_str): the five bucket-chain variants  *)
(* ClhtStrPtr, ClhtStrInline, ClhtStrPooled, ClhtStrTagged, ClhtStrFinal.  *)
(*                                                                         *)
(* A key is a sequence of bytes.  A 64-bit hash is the set of its set bit  *)
(* positions (0 = least significant), so that xor, shift and mask are set  *)
(* operations and never leave the integer range of the checker.            *)
(***************************************************************************)
EXTENDS Integers, Sequences, FiniteSets, TLC

(***************************************************************************)
(* Bounds of the model.                                                    *)
(***************************************************************************)
MaxOps == 2            \* calls made on one table after the first inserts
MaxValue == 2          \* values are 1..MaxValue
MaxFirst == 5          \* at most this many first inserts before the calls
MaxSpin == 10002       \* failed lock exchanges followed for one call

(***************************************************************************)
(* Program constants.                                                      *)
(***************************************************************************)
CLHT_STR_ENTRIES_PER_BUCKET == 3
INLINE_ENTRIES_PER_BUCKET == 2
POOLED_ENTRIES_PER_BUCKET == 3
TAGGED_ENTRIES == 4
FINAL_ENTRIES_V == 4
INLINE_STR_MAX_LEN == 16
EMPTY_TAG == 0
LOCK_FREE == 0
LOCK_UPDATE == 1
LOCK_RESIZE == 2
NULL == 0              \* nullptr
\* UINTPTR_MAX (all 64 bits set) is the only value outside 0..MaxValue that
\* the model needs; it is written -1, its value as a signed word.
UINTPTR_MAX == -1
UINT32_MAX == -2       \* failure sentinel of ThreadSafeKeyPool::alloc

Variants == {"Ptr", "Inline", "Pooled", "Tagged", "Final"}

(***************************************************************************)
(* Keys and values the calls are made with.                                *)
(***************************************************************************)
KeyEmpty == << >>
KeyA == <<97>>
KeyB == <<98>>
KeyC == <<99>>
KeyD == <<100>>
KeyE == <<101>>
Keys == {KeyEmpty, KeyA, KeyB, KeyC, KeyD, KeyE}
Values == 1..MaxValue
Capacities == {4, 8}
InitialPoolSize == 16

(***************************************************************************)
(* Bit-set arithmetic.                                                     *)
(***************************************************************************)
Pow2(n) == 2 ^ n

XorBits(a, b) == (a \ b) \cup (b \ a)

ShiftRight1(a) == {i - 1 : i \in a \ {0}}

ByteBits(x) == {i \in 0..7 : (x \div Pow2(i)) % 2 = 1}

RECURSIVE BitsToInt(_)
BitsToInt(S) ==
    IF S = {} THEN 0
    ELSE LET i == CHOOSE j \in S : TRUE IN Pow2(i) + BitsToInt(S \ {i})

AllOnes32 == 0..31

(***************************************************************************)
(* hash_str_crc32: the SSE4.2 crc32 instructions compute CRC-32C           *)
(* (reflected polynomial 0x82F63B78); the 8-byte and 4-byte steps equal    *)
(* the byte step applied to the bytes in little-endian order.              *)
(***************************************************************************)
Crc32cPoly == {3, 4, 5, 6, 8, 9, 11, 12, 13, 17, 18, 20, 21, 22, 23, 25, 31}

\* n shifts of the bitwise crc step; a crc of zero stays zero
RECURSIVE Crc32Shift(_, _)
Crc32Shift(crc, n) ==
    IF crc = {} \/ n = 0 THEN crc
    ELSE Crc32Shift(IF 0 \in crc THEN XorBits(ShiftRight1(crc), Crc32cPoly)
                                 ELSE ShiftRight1(crc), n - 1)

mm_crc32_u8(crc, byte) == Crc32Shift(XorBits(crc, ByteBits(byte)), 8)

\* the crc after bytes lo..hi of str, taken in order; the range is halved and
\* the first half is finished before the second starts, so that a long key is
\* evaluated at logarithmic depth
RECURSIVE Crc32Bytes(_, _, _, _)
Crc32Bytes(crc, str, lo, hi) ==
    IF lo > hi THEN crc
    ELSE IF lo = hi THEN mm_crc32_u8(crc, str[lo])
    ELSE LET mid == (lo + hi) \div 2
             half == Crc32Bytes(crc, str, lo, mid)
         IN IF half = {} THEN Crc32Bytes({}, str, mid + 1, hi)
            ELSE Crc32Bytes(half, str, mid + 1, hi)

hash_str_crc32(str) ==
    IF Len(str) = 0 THEN {}
    ELSE XorBits(Crc32Bytes(AllOnes32, str, 1, Len(str)), AllOnes32)

\* the hashes of the keys of the model, computed once
KeyHash == [k \in Keys |-> hash_str_crc32(k)]

\* keys that differ in length only, and keys longer than the inline capacity
KeyA0 == <<97, 0>>
K16 == [i \in 1..16 |-> 107]
K17a == K16 \o <<97>>
K17b == K16 \o <<98>>
LongKeys == {KeyA, KeyA0, KeyB, K16, K17a, K17b}
LongKeyHash == [k \in LongKeys |-> hash_str_crc32(k)]

\* str followed by itself, times times over
RECURSIVE Doubled(_, _)
Doubled(str, times) == IF times = 0 THEN str ELSE Doubled(str \o str, times - 1)

\* a key whose length does not fit 16 bits: 65,536 bytes 'x'
KeyHuge == Doubled(<<120>>, 16)
KeyHugeHash == hash_str_crc32(KeyHuge)

hash_string(str) ==
    IF str \in Keys THEN KeyHash[str]
    ELSE IF str \in LongKeys THEN LongKeyHash[str]
    ELSE IF str = KeyHuge THEN KeyHugeHash
    ELSE hash_str_crc32(str)

\* hash & mask, for a mask below 2^30
HashAndMask(hash, mask) ==
    BitsToInt({i \in hash : i < 30 /\ (mask \div Pow2(i)) % 2 = 1})

\* a tag without the high bit: (uint8_t)(hash >> 56)
TagOf_NoHighBit(hash) == BitsToInt({i - 56 : i \in {j \in hash : j >= 56 /\ j <= 63}})

\* (uint8_t)((hash >> 56) | 0x80)
TagOf(hash) == 128 + BitsToInt({i - 56 : i \in {j \in hash : j >= 56 /\ j <= 62}})

(***************************************************************************)
(* strcmp_simd: 0 iff the first len bytes agree.  A stored string is       *)
(* followed by its NUL terminator.                                         *)
(***************************************************************************)
ByteAt(s, i) == IF i <= Len(s) THEN s[i] ELSE 0

strcmp_simd(s1, s2, len) ==
    IF len = 0 THEN 0
    ELSE IF \A i \in 1..len : ByteAt(s1, i) = ByteAt(s2, i) THEN 0 ELSE 1

(***************************************************************************)
(* State.                                                                  *)
(*   variant      which of the five table classes the table is             *)
(*   ht           the hashtable struct: size, mask, num_elements and the   *)
(*                bucket array; table[i] is the chain of head bucket i,    *)
(*                head first, each bucket's next being its successor in    *)
(*                the sequence (null for the last)                         *)
(*   allocator    StringAllocator: the strings stored so far; a key        *)
(*                pointer is an index into it, NULL is 0                   *)
(*   pool         ThreadSafeKeyPool: capacity_, offset_ and the strings    *)
(*                stored, each with the offset it was stored at            *)
(*   last         the call that returned last and what it returned, with   *)
(*                what held before it: before = present[key], size0 = the  *)
(*                size, was_removed = key \in removed                      *)
(*   present      for every key, the value the table's answers so far say  *)
(*                it holds (UINTPTR_MAX: none); history variable           *)
(*   inserted     keys some insert call was made with; history variable    *)
(*   removed      keys whose remove returned true and that no insert call  *)
(*                was made with since; history variable                    *)
(*   fresh        every call so far was a lookup or the insert of a key no *)
(*                insert was made with before; history variable            *)
(*   nops         number of calls made                                     *)
(*   thr          the threads of the concurrent models                     *)
(*   batch        the batch call of ParallelClhtStr in progress: its keys, *)
(*                values and results vectors and the fork-join tasks       *)
(*   freed        the blocks the destructor has freed, in the order of the *)
(*                frees; empty while the table is alive                    *)
(***************************************************************************)
VARIABLES variant, ht, allocator, pool, last, present, inserted, removed, fresh, nops, thr,
          batch, freed, gc

vars == <<variant, ht, allocator, pool, last, present, inserted, removed, fresh, nops, thr,
          batch, freed, gc>>

EntriesPerBucket(v) ==
    CASE v = "Ptr" -> CLHT_STR_ENTRIES_PER_BUCKET
      [] v = "Inline" -> INLINE_ENTRIES_PER_BUCKET
      [] v = "Pooled" -> POOLED_ENTRIES_PER_BUCKET
      [] v = "Tagged" -> TAGGED_ENTRIES
      [] v = "Final" -> FINAL_ENTRIES_V

ZeroKey(v) == IF v = "Inline" THEN [i \in 1..INLINE_STR_MAX_LEN |-> 0] ELSE 0

\* a slot of a bucket after memset(.., 0, ..)
ZeroSlot(v) == [tag |-> 0, hash |-> {}, key |-> ZeroKey(v), len |-> 0, val |-> 0]

\* zeroed is FALSE for an overflow bucket that is linked into its chain and
\* not yet memset: its fields then hold whatever aligned_alloc returned
ZeroBucket(v) ==
    [lock |-> 0, outbound_overflow_count |-> 0, zeroed |-> TRUE,
     slots |-> [i \in 1..EntriesPerBucket(v) |-> ZeroSlot(v)]]

(***************************************************************************)
(* hashtable_*_create: the bucket count for a requested capacity.          *)
(***************************************************************************)
RECURSIVE RoundUpPow2(_, _)
RoundUpPow2(size, target) ==
    IF size < target THEN RoundUpPow2(size * 2, target) ELSE size

CreateSize(v, capacity) ==
    IF v \in {"Tagged", "Final"}
    THEN RoundUpPow2(1, (capacity + EntriesPerBucket(v) - 1) \div EntriesPerBucket(v))
    ELSE RoundUpPow2(1, capacity \div EntriesPerBucket(v))

hashtable_create(v, capacity) ==
    LET size == CreateSize(v, capacity) IN
    [size |-> size, mask |-> size - 1, num_elements |-> 0,
     table |-> [i \in 0..(size - 1) |-> <<ZeroBucket(v)>>]]

(***************************************************************************)
(* Walking a chain: position n counts the slots of a chain in the order    *)
(* the loops visit them (bucket by bucket, slot by slot).                  *)
(***************************************************************************)
ChainE(c) == Len(c[1].slots)
NumPos(c) == Len(c) * ChainE(c)
BucketOf(c, n) == ((n - 1) \div ChainE(c)) + 1
IndexOf(c, n) == ((n - 1) % ChainE(c)) + 1
SlotAt(c, n) == c[BucketOf(c, n)].slots[IndexOf(c, n)]
SetSlot(c, n, s) == [c EXCEPT ![BucketOf(c, n)].slots[IndexOf(c, n)] = s]
First(S) == CHOOSE n \in S : \A m \in S : n <= m

BucketIdx(h, key) == HashAndMask(hash_string(key), h.mask)

\* result of a call on one chain
Result(c, a, p, delta, ret) ==
    [chain |-> c, allocator |-> a, pool |-> p, delta |-> delta, ret |-> ret]

(***************************************************************************)
(* StringAllocator::alloc: appends a copy of the string, returns a pointer *)
(* to it.                                                                  *)
(***************************************************************************)
StringAllocator_alloc(a, str) == [allocator |-> Append(a, str), ptr |-> Len(a) + 1]

\* the bytes a key pointer points to
PtrBytes(a, ptr) == IF ptr = NULL THEN << >> ELSE a[ptr]

\* StringAllocator keeps chunks of CHUNK_SIZE bytes and appends to the newest
CHUNK_SIZE == 64 * 1024

\* (len + 8) & ~7
ArenaAllocSize(len) == ((len + 8) \div 8) * 8

\* the offset in its chunk at which the n-th allocation of arena a starts, and
\* the offset of the newest chunk after the first n allocations
RECURSIVE ChunkOffsetAfter(_, _)
ArenaStart(a, n) ==
    LET offset == ChunkOffsetAfter(a, n - 1) IN
    IF offset + ArenaAllocSize(Len(a[n])) > CHUNK_SIZE THEN 0 ELSE offset

ChunkOffsetAfter(a, n) ==
    IF n = 0 THEN 0 ELSE ArenaStart(a, n) + ArenaAllocSize(Len(a[n]))

\* memcpy(result, str, len) and result[len] = 0 stay inside chunk->data
ArenaWriteInside(a, n) == ArenaStart(a, n) + Len(a[n]) + 1 <= CHUNK_SIZE

(***************************************************************************)
(* ClhtStrPtr                                                              *)
(***************************************************************************)
PtrKeyMatch(a, s, hash, key, len) ==
    /\ s.hash = hash
    /\ s.len = len
    /\ strcmp_simd(key, PtrBytes(a, s.key), len) = 0

RECURSIVE hashtable_ptr_put(_, _, _, _, _)
hashtable_ptr_put(c, a, p, key, val) ==
    LET hash == hash_string(key)
        len == Len(key)
        hits == {n \in 1..NumPos(c) :
                    \/ PtrKeyMatch(a, SlotAt(c, n), hash, key, len)
                    \/ SlotAt(c, n).hash = {}}
    IN IF hits = {}
       THEN \* no slot matched and none is empty: create overflow bucket
            hashtable_ptr_put(Append(c, ZeroBucket("Ptr")), a, p, key, val)
       ELSE LET n == First(hits)
                s == SlotAt(c, n)
            IN IF PtrKeyMatch(a, s, hash, key, len)
               THEN Result(SetSlot(c, n, [s EXCEPT !.val = val]), a, p, 0, TRUE)
               ELSE LET st == StringAllocator_alloc(a, key) IN
                    Result(SetSlot(c, n, [s EXCEPT !.hash = hash, !.key = st.ptr,
                                                   !.len = len % 65536, !.val = val]),
                           st.allocator, p, 1, TRUE)

hashtable_ptr_get(c, a, p, key) ==
    LET hash == hash_string(key)
        len == Len(key)
        hits == {n \in 1..NumPos(c) :
                    \/ PtrKeyMatch(a, SlotAt(c, n), hash, key, len)
                    \/ SlotAt(c, n).hash = {}}
    IN IF hits = {} THEN UINTPTR_MAX
       ELSE LET s == SlotAt(c, First(hits)) IN
            IF PtrKeyMatch(a, s, hash, key, len) THEN s.val
            ELSE UINTPTR_MAX   \* early termination at an empty slot

hashtable_ptr_remove(c, a, p, key) ==
    LET hash == hash_string(key)
        len == Len(key)
        hits == {n \in 1..NumPos(c) : PtrKeyMatch(a, SlotAt(c, n), hash, key, len)}
    IN IF hits = {} THEN Result(c, a, p, 0, FALSE)
       ELSE LET n == First(hits) IN
            Result(SetSlot(c, n, [SlotAt(c, n) EXCEPT !.hash = {}, !.key = NULL,
                                                      !.len = 0, !.val = 0]),
                   a, p, -1, TRUE)

(***************************************************************************)
(* ClhtStrInline                                                           *)
(***************************************************************************)
\* the first len bytes of a key
Prefix(key, len) == [i \in 1..len |-> key[i]]

\* len after "if (len > INLINE_STR_MAX_LEN) len = INLINE_STR_MAX_LEN"
InlineLen(key) == IF Len(key) > INLINE_STR_MAX_LEN THEN INLINE_STR_MAX_LEN ELSE Len(key)

copy_key_inline(src, len) ==
    LET copy_len == IF len < INLINE_STR_MAX_LEN THEN len ELSE INLINE_STR_MAX_LEN IN
    [i \in 1..INLINE_STR_MAX_LEN |-> IF i <= copy_len THEN src[i] ELSE 0]

compare_key_inline(stored, key, len, stored_len) ==
    IF len # stored_len THEN FALSE
    ELSE strcmp_simd(stored, key,
                     IF len > INLINE_STR_MAX_LEN THEN INLINE_STR_MAX_LEN ELSE len) = 0

InlineKeyMatch(s, hash, key, len) ==
    /\ s.hash = hash
    /\ s.len = len
    /\ compare_key_inline(s.key, key, len, len)

RECURSIVE InlineInsertNew(_, _, _, _, _, _)
InlineInsertNew(c, a, p, key, len, val) ==
    LET empties == {n \in 1..NumPos(c) : SlotAt(c, n).hash = {}} IN
    IF empties = {}
    THEN InlineInsertNew(Append(c, ZeroBucket("Inline")), a, p, key, len, val)
    ELSE LET n == First(empties) IN
         Result(SetSlot(c, n, [SlotAt(c, n) EXCEPT
                                  !.hash = hash_string(Prefix(key, len)),
                                  !.key = copy_key_inline(key, len),
                                  !.len = len % 256, !.val = val]),
                a, p, 1, TRUE)

hashtable_inline_put(c, a, p, key, val) ==
    LET len == InlineLen(key)
        hash == hash_string(Prefix(key, len))
        matches == {n \in 1..NumPos(c) : InlineKeyMatch(SlotAt(c, n), hash, key, len)}
    IN IF matches # {}
       THEN LET n == First(matches) IN
            Result(SetSlot(c, n, [SlotAt(c, n) EXCEPT !.val = val]), a, p, 0, TRUE)
       ELSE InlineInsertNew(c, a, p, key, len, val)

hashtable_inline_get(c, a, p, key) ==
    LET len == InlineLen(key)
        hash == hash_string(Prefix(key, len))
        hits == {n \in 1..NumPos(c) :
                    \/ InlineKeyMatch(SlotAt(c, n), hash, key, len)
                    \/ SlotAt(c, n).hash = {}}
    IN IF hits = {} THEN UINTPTR_MAX
       ELSE LET s == SlotAt(c, First(hits)) IN
            IF InlineKeyMatch(s, hash, key, len) THEN s.val
            ELSE UINTPTR_MAX   \* early termination at an empty slot

hashtable_inline_remove(c, a, p, key) ==
    LET len == InlineLen(key)
        hash == hash_string(Prefix(key, len))
        matches == {n \in 1..NumPos(c) : InlineKeyMatch(SlotAt(c, n), hash, key, len)}
    IN IF matches = {} THEN Result(c, a, p, 0, FALSE)
       ELSE LET n == First(matches) IN
            Result(SetSlot(c, n, [SlotAt(c, n) EXCEPT !.hash = {}, !.len = 0, !.val = 0]),
                   a, p, -1, TRUE)

(***************************************************************************)
(* ThreadSafeKeyPool and ClhtStrPooled                                     *)
(***************************************************************************)
ThreadSafeKeyPool(initial_size) ==
    [capacity_ |-> initial_size, offset_ |-> 0, data |-> << >>]

\* (len + 1 + 7) & ~7
PoolAllocSize(len) == ((len + 8) \div 8) * 8

\* what the bytes of a reserved region hold before the key is copied there
Uninit(str) == [i \in 1..Len(str) |-> 255]

RECURSIVE PoolGrow(_, _)
PoolGrow(new_capacity, needed) ==
    IF new_capacity < needed THEN PoolGrow(new_capacity * 2, needed) ELSE new_capacity

\* an expand that does not copy the stored bytes to the new buffer
ThreadSafeKeyPool_expand_NoCopy(p, needed) ==
    [p EXCEPT !.capacity_ = PoolGrow(p.capacity_ * 2, p.offset_ + needed),
              !.data = [n \in 1..Len(p.data) |-> [p.data[n] EXCEPT !.str = Uninit(@)]]]

\* expand: the new capacity; the stored bytes are copied to the new buffer
ThreadSafeKeyPool_expand(p, needed) ==
    [p EXCEPT !.capacity_ = PoolGrow(p.capacity_ * 2, p.offset_ + needed)]

\* alloc, the part under mutex_: expand if needed, then take the region; oom
\* says whether aligned_alloc fails when the pool has to grow
ThreadSafeKeyPool_reserve(p, str, oom) ==
    LET alloc_size == PoolAllocSize(Len(str))
        grow == p.offset_ + alloc_size > p.capacity_
        q == IF grow THEN ThreadSafeKeyPool_expand(p, alloc_size) ELSE p
    IN IF grow /\ oom
       THEN [pool |-> p, offset |-> UINT32_MAX]
       ELSE [pool |-> [q EXCEPT !.offset_ = q.offset_ + alloc_size,
                                !.data = Append(q.data, [off |-> q.offset_,
                                                         str |-> Uninit(str)])],
             offset |-> q.offset_]

\* alloc, after mutex_ is released: memcpy(data_ + offset, str, len)
ThreadSafeKeyPool_copy(p, offset, str) ==
    [p EXCEPT !.data = [n \in 1..Len(p.data) |->
                           IF p.data[n].off = offset THEN [off |-> offset, str |-> str]
                           ELSE p.data[n]]]

ThreadSafeKeyPool_alloc(p, str, oom) ==
    LET r == ThreadSafeKeyPool_reserve(p, str, oom) IN
    IF r.offset = UINT32_MAX THEN r
    ELSE [pool |-> ThreadSafeKeyPool_copy(r.pool, r.offset, str), offset |-> r.offset]

\* get: is the result a null pointer
PoolGetIsNull(p, offset) == offset >= p.offset_

\* the bytes stored at an offset that get does not map to nullptr
PoolBytes(p, offset) ==
    LET at == {i \in 1..Len(p.data) : p.data[i].off = offset} IN
    IF at = {} THEN << >> ELSE p.data[CHOOSE i \in at : TRUE].str

PooledKeyMatch(p, s, hash, key, len) ==
    /\ s.hash = hash
    /\ ~PoolGetIsNull(p, s.key)
    /\ s.len = len
    /\ strcmp_simd(key, PoolBytes(p, s.key), len) = 0

RECURSIVE PooledInsertNew(_, _, _, _, _, _)
PooledInsertNew(c, a, p, key, offset, val) ==
    LET empties == {n \in 1..NumPos(c) : SlotAt(c, n).hash = {}} IN
    IF empties = {}
    THEN PooledInsertNew(Append(c, ZeroBucket("Pooled")), a, p, key, offset, val)
    ELSE LET n == First(empties) IN
         Result(SetSlot(c, n, [SlotAt(c, n) EXCEPT !.hash = hash_string(key),
                                                   !.key = offset,
                                                   !.len = Len(key) % 65536,
                                                   !.val = val]),
                a, p, 1, TRUE)

hashtable_pooled_put(c, a, p, key, val, oom) ==
    LET hash == hash_string(key)
        len == Len(key)
        matches == {n \in 1..NumPos(c) : PooledKeyMatch(p, SlotAt(c, n), hash, key, len)}
    IN IF matches # {}
       THEN LET n == First(matches) IN
            Result(SetSlot(c, n, [SlotAt(c, n) EXCEPT !.val = val]), a, p, 0, TRUE)
       ELSE LET al == ThreadSafeKeyPool_alloc(p, key, oom) IN
            IF al.offset = UINT32_MAX
            THEN Result(c, a, p, 0, FALSE)
            ELSE PooledInsertNew(c, a, al.pool, key, al.offset, val)

hashtable_pooled_get(c, a, p, key) ==
    LET hash == hash_string(key)
        len == Len(key)
        hits == {n \in 1..NumPos(c) :
                    \/ PooledKeyMatch(p, SlotAt(c, n), hash, key, len)
                    \/ SlotAt(c, n).hash = {}}
    IN IF hits = {} THEN UINTPTR_MAX
       ELSE LET s == SlotAt(c, First(hits)) IN
            IF PooledKeyMatch(p, s, hash, key, len) THEN s.val
            ELSE UINTPTR_MAX   \* early termination at an empty slot

hashtable_pooled_remove(c, a, p, key) ==
    LET hash == hash_string(key)
        len == Len(key)
        matches == {n \in 1..NumPos(c) : PooledKeyMatch(p, SlotAt(c, n), hash, key, len)}
    IN IF matches = {} THEN Result(c, a, p, 0, FALSE)
       ELSE LET n == First(matches) IN
            Result(SetSlot(c, n, [SlotAt(c, n) EXCEPT !.hash = {}, !.key = 0,
                                                      !.len = 0, !.val = 0]),
                   a, p, -1, TRUE)

(***************************************************************************)
(* ClhtStrTagged                                                           *)
(***************************************************************************)
OverflowCountMax == 255

\* an insert that forgets to count the overflow
IncSat_Skip(x) == x

IncSat(x) == IF x < OverflowCountMax THEN x + 1 ELSE x
DecPos(x) == IF x > 0 THEN x - 1 ELSE x

\* match_tags_4 / match_tags_final: the slots of a bucket whose tag is needle
match_tags_4(b, needle) == {i \in 1..Len(b.slots) : b.slots[i].tag = needle}

\* find_empty_tags_4 / find_empty_tags_final
find_empty_tags_4(b) == {i \in 1..Len(b.slots) : b.slots[i].tag = 0}

TaggedKeyMatch(a, s, tag, hash, key, len) ==
    /\ s.tag = tag
    /\ s.hash = hash
    /\ s.len = len
    /\ strcmp_simd(key, PtrBytes(a, s.key), len) = 0

\* the positions of a chain that hold the key, as the tag-filtered scans see them
TaggedMatches(c, a, key) ==
    LET hash == hash_string(key) IN
    {n \in 1..NumPos(c) :
        /\ IndexOf(c, n) \in match_tags_4(c[BucketOf(c, n)], TagOf(hash))
        /\ TaggedKeyMatch(a, SlotAt(c, n), TagOf(hash), hash, key, Len(key))}

TaggedEmpties(c) ==
    {n \in 1..NumPos(c) : IndexOf(c, n) \in find_empty_tags_4(c[BucketOf(c, n)])}

\* the entry written into an empty slot
TaggedEntry(key, ptr, val) ==
    [tag |-> TagOf(hash_string(key)), hash |-> hash_string(key), key |-> ptr,
     len |-> Len(key) % 65536, val |-> val]

\* second pass of hashtable_tagged_put: every full bucket passed counts one
\* more overflow, and the bucket before the one written counts once more
RECURSIVE TaggedInsertNew(_, _, _, _, _)
TaggedInsertNew(c, a, p, key, val) ==
    LET empties == TaggedEmpties(c) IN
    IF empties = {}
    THEN TaggedInsertNew(Append(c, ZeroBucket("Tagged")), a, p, key, val)
    ELSE LET n == First(empties)
             b == BucketOf(c, n)
             st == StringAllocator_alloc(a, key)
             c1 == SetSlot(c, n, TaggedEntry(key, st.ptr, val))
             c2 == [j \in 1..Len(c1) |->
                      IF j < b
                      THEN [c1[j] EXCEPT !.outbound_overflow_count =
                               IF j = b - 1 THEN IncSat(IncSat(@)) ELSE IncSat(@)]
                      ELSE c1[j]]
         IN Result(c2, st.allocator, p, 1, TRUE)

hashtable_tagged_put(c, a, p, key, val) ==
    LET matches == TaggedMatches(c, a, key) IN
    IF matches # {}
    THEN LET n == First(matches) IN
         Result(SetSlot(c, n, [SlotAt(c, n) EXCEPT !.val = val]), a, p, 0, TRUE)
    ELSE TaggedInsertNew(c, a, p, key, val)

\* lookup from bucket b on: a match in the bucket, else stop when the bucket
\* counts no overflow, else follow next
\* the early exit of a lookup: no key of the chain lies past this bucket
EarlyExit_Never(count) == FALSE
EarlyExit(count) == count = 0

RECURSIVE TaggedGetFrom(_, _, _, _)
TaggedGetFrom(c, a, key, b) ==
    IF b > Len(c) THEN UINTPTR_MAX
    ELSE LET here == {n \in TaggedMatches(c, a, key) : BucketOf(c, n) = b} IN
         IF here # {} THEN SlotAt(c, First(here)).val
         ELSE IF EarlyExit(c[b].outbound_overflow_count) THEN UINTPTR_MAX
         ELSE TaggedGetFrom(c, a, key, b + 1)

hashtable_tagged_get(c, a, p, key) == TaggedGetFrom(c, a, key, 1)

hashtable_tagged_remove(c, a, p, key) ==
    LET matches == TaggedMatches(c, a, key) IN
    IF matches = {} THEN Result(c, a, p, 0, FALSE)
    ELSE LET n == First(matches)
             b == BucketOf(c, n)
             c1 == SetSlot(c, n, [tag |-> EMPTY_TAG, hash |-> {}, key |-> NULL,
                                  len |-> 0, val |-> 0])
             c2 == IF b > 1
                   THEN [c1 EXCEPT ![b - 1].outbound_overflow_count = DecPos(@)]
                   ELSE c1
         IN Result(c2, a, p, -1, TRUE)

(***************************************************************************)
(* ClhtStrFinal                                                            *)
(***************************************************************************)
hashtable_final_put(c, a, p, key, val) ==
    LET matches == TaggedMatches(c, a, key)
        empties == TaggedEmpties(c)
        st == StringAllocator_alloc(a, key)
    IN IF matches # {}
       THEN LET n == First(matches) IN
            Result(SetSlot(c, n, [SlotAt(c, n) EXCEPT !.val = val]), a, p, 0, TRUE)
       ELSE IF empties # {}
       THEN LET n == First(empties)
                b == BucketOf(c, n)
                c1 == SetSlot(c, n, TaggedEntry(key, st.ptr, val))
                c2 == IF b > 1
                      THEN [c1 EXCEPT ![b - 1].outbound_overflow_count = IncSat(@)]
                      ELSE c1
            IN Result(c2, st.allocator, p, 1, TRUE)
       ELSE \* create overflow: every bucket of the chain counts one more
            LET c1 == [j \in 1..Len(c) |->
                         [c[j] EXCEPT !.outbound_overflow_count = IncSat(@)]]
                nb == [ZeroBucket("Final") EXCEPT !.slots[1] = TaggedEntry(key, st.ptr, val)]
            IN Result(Append(c1, nb), st.allocator, p, 1, TRUE)

hashtable_final_get(c, a, p, key) == TaggedGetFrom(c, a, key, 1)

hashtable_final_remove(c, a, p, key) == hashtable_tagged_remove(c, a, p, key)

(***************************************************************************)
(* The class wrappers: insert, lookup, remove, size of the table's class.  *)
(***************************************************************************)
put(v, c, a, p, key, val, oom) ==
    CASE v = "Ptr" -> hashtable_ptr_put(c, a, p, key, val)
      [] v = "Inline" -> hashtable_inline_put(c, a, p, key, val)
      [] v = "Pooled" -> hashtable_pooled_put(c, a, p, key, val, oom)
      [] v = "Tagged" -> hashtable_tagged_put(c, a, p, key, val)
      [] v = "Final" -> hashtable_final_put(c, a, p, key, val)

get(v, c, a, p, key) ==
    CASE v = "Ptr" -> hashtable_ptr_get(c, a, p, key)
      [] v = "Inline" -> hashtable_inline_get(c, a, p, key)
      [] v = "Pooled" -> hashtable_pooled_get(c, a, p, key)
      [] v = "Tagged" -> hashtable_tagged_get(c, a, p, key)
      [] v = "Final" -> hashtable_final_get(c, a, p, key)

rem(v, c, a, p, key) ==
    CASE v = "Ptr" -> hashtable_ptr_remove(c, a, p, key)
      [] v = "Inline" -> hashtable_inline_remove(c, a, p, key)
      [] v = "Pooled" -> hashtable_pooled_remove(c, a, p, key)
      [] v = "Tagged" -> hashtable_tagged_remove(c, a, p, key)
      [] v = "Final" -> hashtable_final_remove(c, a, p, key)

\* the key the table hashes: ClhtStrInline hashes the truncated key
HashedKey(v, key) == IF v = "Inline" THEN Prefix(key, InlineLen(key)) ELSE key

ChainOf(v, h, key) == h.table[BucketIdx(h, HashedKey(v, key))]

\* lookup(key) on table h with arena a and pool p
lookupIn(h, a, p, key) == get(variant, ChainOf(variant, h, key), a, p, key)

\* lookup(key) on the current table
lookup(key) == lookupIn(ht, allocator, pool, key)

size == ht.num_elements

(***************************************************************************)
(* Sequential model: one thread calls insert, remove and lookup.  A call   *)
(* takes the head bucket's lock, which is free, runs, and releases it.     *)
(***************************************************************************)
Call(op, key, val, ret) ==
    [op |-> op, key |-> key, val |-> val, ret |-> ret, before |-> present[key],
     size0 |-> ht.num_elements, was_removed |-> key \in removed]

NoCall ==
    [op |-> "none", key |-> KeyEmpty, val |-> 0, ret |-> 0, before |-> UINTPTR_MAX,
     size0 |-> 0, was_removed |-> FALSE]

Idle == [t \in {} |-> 0]

\* no batch call is in progress
NoBatch == [op |-> "none"]

\* no ParallelClhtInt has been constructed
NoGc == [count |-> 0]

\* the table after its creation and insert(FirstKeys[1], 1) .. insert(FirstKeys[n], 1)
FirstKeys == <<KeyA, KeyB, KeyC, KeyD, KeyE, KeyEmpty>>

RECURSIVE AfterKeys(_, _, _)
AfterKeys(v, capacity, keys) ==
    IF keys = << >>
    THEN [ht |-> hashtable_create(v, capacity), allocator |-> << >>,
          pool |-> ThreadSafeKeyPool(InitialPoolSize)]
    ELSE LET n == Len(keys)
             w == AfterKeys(v, capacity, SubSeq(keys, 1, n - 1))
             key == keys[n]
             idx == BucketIdx(w.ht, HashedKey(v, key))
             r == put(v, w.ht.table[idx], w.allocator, w.pool, key, 1, FALSE)
         IN [ht |-> [w.ht EXCEPT !.table[idx] = r.chain,
                                 !.num_elements = @ + r.delta],
             allocator |-> r.allocator, pool |-> r.pool]

AfterFirst(v, capacity, n) == AfterKeys(v, capacity, SubSeq(FirstKeys, 1, n))

Init ==
    /\ gc = NoGc
    /\ variant \in Variants
    /\ \E capacity \in Capacities, n \in 0..MaxFirst :
          LET m == IF n < Len(FirstKeys) THEN n ELSE Len(FirstKeys)
              w == AfterFirst(variant, capacity, m)
          IN /\ ht = w.ht
             /\ allocator = w.allocator
             /\ pool = w.pool
             /\ present = [k \in Keys |->
                             IF \E i \in 1..m : FirstKeys[i] = k THEN 1 ELSE UINTPTR_MAX]
             /\ inserted = {FirstKeys[i] : i \in 1..m}
    /\ removed = {}
    /\ fresh = TRUE
    /\ last = NoCall
    /\ nops = 0
    /\ thr = Idle
    /\ batch = NoBatch
    /\ freed = << >>

Insert(key, val) ==
    /\ nops < MaxOps
    /\ LET idx == BucketIdx(ht, HashedKey(variant, key))
           c == ht.table[idx]
           r == put(variant, c, allocator, pool, key, val, FALSE)
       IN /\ c[1].lock = LOCK_FREE
          /\ ht' = [ht EXCEPT !.table[idx] = r.chain, !.num_elements = @ + r.delta]
          /\ allocator' = r.allocator
          /\ pool' = r.pool
          /\ last' = Call("insert", key, val, r.ret)
          /\ present' = IF r.ret THEN [present EXCEPT ![key] = val] ELSE present
    /\ inserted' = inserted \cup {key}
    /\ removed' = removed \ {key}
    /\ fresh' = (fresh /\ key \notin inserted)
    /\ nops' = nops + 1
    /\ UNCHANGED <<gc, variant, batch, freed, thr>>

Remove(key) ==
    /\ nops < MaxOps
    /\ LET idx == BucketIdx(ht, HashedKey(variant, key))
           c == ht.table[idx]
           r == rem(variant, c, allocator, pool, key)
       IN /\ c[1].lock = LOCK_FREE
          /\ ht' = [ht EXCEPT !.table[idx] = r.chain, !.num_elements = @ + r.delta]
          /\ last' = Call("remove", key, 0, r.ret)
          /\ present' = IF r.ret THEN [present EXCEPT ![key] = UINTPTR_MAX] ELSE present
          /\ removed' = IF r.ret THEN removed \cup {key} ELSE removed
    /\ fresh' = FALSE
    /\ nops' = nops + 1
    /\ UNCHANGED <<gc, variant, batch, freed, allocator, pool, inserted, thr>>

Lookup(key) ==
    /\ nops < MaxOps
    /\ last' = Call("lookup", key, 0, lookup(key))
    /\ nops' = nops + 1
    /\ UNCHANGED <<gc, variant, batch, freed, ht, allocator, pool, present, inserted, removed, fresh, thr>>

Next ==
    \/ \E key \in Keys, val \in Values : Insert(key, val)
    \/ \E key \in Keys : Remove(key)
    \/ \E key \in Keys : Lookup(key)

Spec == Init /\ [][Next]_vars

(***************************************************************************)
(* The same calls on keys that differ in length only and on keys longer   *)
(* than the inline capacity, after the first n inserts of LongFirst.       *)
(***************************************************************************)
LongFirst == <<KeyA, KeyA0, K17a, KeyB>>
LongCapacities == {2, 4}

InitLong ==
    /\ gc = NoGc
    /\ variant \in Variants
    /\ \E capacity \in LongCapacities, n \in 0..Len(LongFirst) :
          LET w == AfterKeys(variant, capacity, SubSeq(LongFirst, 1, n))
          IN /\ ht = w.ht
             /\ allocator = w.allocator
             /\ pool = w.pool
             /\ present = [k \in LongKeys |->
                             IF \E i \in 1..n : LongFirst[i] = k THEN 1 ELSE UINTPTR_MAX]
             /\ inserted = {LongFirst[i] : i \in 1..n}
    /\ removed = {}
    /\ fresh = TRUE
    /\ last = NoCall
    /\ nops = 0
    /\ thr = Idle
    /\ batch = NoBatch
    /\ freed = << >>

NextLong ==
    \/ \E key \in LongKeys, val \in Values : Insert(key, val)
    \/ \E key \in LongKeys : Remove(key)
    \/ \E key \in LongKeys : Lookup(key)

SpecLong == InitLong /\ [][NextLong]_vars

(***************************************************************************)
(* The same calls on the pointer+allocator tables with a key of 65,536     *)
(* bytes among the keys.                                                   *)
(***************************************************************************)
PtrVariants == {"Ptr", "Tagged", "Final"}
HugeKeys == {KeyA, KeyB, KeyHuge}
HugeFirst == <<KeyA, KeyB>>

InitHuge ==
    /\ gc = NoGc
    /\ variant \in PtrVariants
    /\ \E capacity \in Capacities, n \in 0..Len(HugeFirst) :
          LET w == AfterKeys(variant, capacity, SubSeq(HugeFirst, 1, n))
          IN /\ ht = w.ht
             /\ allocator = w.allocator
             /\ pool = w.pool
             /\ present = [k \in HugeKeys |->
                             IF \E i \in 1..n : HugeFirst[i] = k THEN 1 ELSE UINTPTR_MAX]
             /\ inserted = {HugeFirst[i] : i \in 1..n}
    /\ removed = {}
    /\ fresh = TRUE
    /\ last = NoCall
    /\ nops = 0
    /\ thr = Idle
    /\ batch = NoBatch
    /\ freed = << >>

NextHuge ==
    \/ \E key \in HugeKeys, val \in Values : Insert(key, val)
    \/ \E key \in HugeKeys : Remove(key)
    \/ \E key \in HugeKeys : Lookup(key)

SpecHuge == InitHuge /\ [][NextHuge]_vars

(***************************************************************************)
(* Concurrent model: the order in which insert and remove write.  Under    *)
(* the head bucket's lock a writer is alone on its chain, so what it finds *)
(* there is decided when it has the lock (WritePlan); the writes it then   *)
(* makes are steps of their own, in the order of the source, and lookups   *)
(* of other threads read between them.                                     *)
(***************************************************************************)
W(k, b, i, f, v) == [k |-> k, b |-> b, i |-> i, f |-> f, v |-> v]

\* the writes that fill the empty slot i of bucket b with a new entry
PlanNew(v, b, i, key, val) ==
    LET hash == hash_string(HashedKey(v, key)) IN
    CASE v = "Ptr" ->
            << W("alloc", b, i, "key", 0), W("set", b, i, "hash", hash),
               W("setptr", b, i, "key", 0), W("set", b, i, "len", Len(key) % 65536),
               W("set", b, i, "val", val) >>
      [] v = "Inline" ->
            << W("set", b, i, "hash", hash),
               W("set", b, i, "key", ZeroKey("Inline")),
               W("set", b, i, "key", copy_key_inline(key, InlineLen(key))),
               W("set", b, i, "len", InlineLen(key) % 256),
               W("set", b, i, "val", val) >>
      [] v = "Pooled" ->
            << W("set", b, i, "hash", hash), W("setptr", b, i, "key", 0),
               W("set", b, i, "len", Len(key) % 65536), W("set", b, i, "val", val) >>
      [] v \in {"Tagged", "Final"} ->
            << W("set", b, i, "tag", TagOf(hash)), W("set", b, i, "hash", hash),
               W("set", b, i, "val", val), W("alloc", b, i, "key", 0),
               W("setptr", b, i, "key", 0), W("set", b, i, "len", Len(key) % 65536) >>

\* the writes that clear slot i of bucket b
PlanClear(v, b, i) ==
    CASE v = "Ptr" ->
            << W("set", b, i, "hash", {}), W("set", b, i, "key", NULL),
               W("set", b, i, "len", 0), W("set", b, i, "val", 0) >>
      [] v = "Inline" ->
            << W("set", b, i, "hash", {}), W("set", b, i, "len", 0),
               W("set", b, i, "val", 0) >>
      [] v = "Pooled" ->
            << W("set", b, i, "hash", {}), W("set", b, i, "key", 0),
               W("set", b, i, "len", 0), W("set", b, i, "val", 0) >>
      [] v \in {"Tagged", "Final"} ->
            << W("set", b, i, "tag", EMPTY_TAG), W("set", b, i, "hash", {}),
               W("set", b, i, "val", 0), W("set", b, i, "key", NULL),
               W("set", b, i, "len", 0) >>

PlanUpdate(c, n, val) == << W("set", BucketOf(c, n), IndexOf(c, n), "val", val) >>
PlanLink(c) == << W("link", Len(c), 0, "next", 0), W("memset", Len(c) + 1, 0, "all", 0) >>
PlanCount(delta) == << W("count", 0, 0, "num_elements", delta) >>
\* a return that leaves the head's lock byte as it is while held
PlanUnlock_Held(ret) == << W("unlock", 1, LOCK_UPDATE, "lock", ret) >>

\* lock_release(head): the store of LOCK_FREE to the head's lock byte (i is
\* the byte stored); ret is what the call then returns
PlanUnlock(ret) == << W("unlock", 1, LOCK_FREE, "lock", ret) >>

\* the positions that hold the key, as the variant's put and remove see them
Matches(v, c, a, p, key) ==
    LET hk == HashedKey(v, key) hash == hash_string(hk) IN
    CASE v = "Ptr" ->
            {n \in 1..NumPos(c) : PtrKeyMatch(a, SlotAt(c, n), hash, key, Len(key))}
      [] v = "Inline" ->
            {n \in 1..NumPos(c) : InlineKeyMatch(SlotAt(c, n), hash, key, Len(hk))}
      [] v = "Pooled" ->
            {n \in 1..NumPos(c) : PooledKeyMatch(p, SlotAt(c, n), hash, key, Len(key))}
      [] v \in {"Tagged", "Final"} -> TaggedMatches(c, a, key)

Empties(v, c) ==
    IF v \in {"Tagged", "Final"} THEN TaggedEmpties(c)
    ELSE {n \in 1..NumPos(c) : SlotAt(c, n).hash = {}}

\* hashtable_ptr_put: one pass, the first slot that holds the key or is empty
RECURSIVE PtrInsertPlan(_, _, _, _, _)
PtrInsertPlan(c, a, p, key, val) ==
    LET hits == Matches("Ptr", c, a, p, key) \cup Empties("Ptr", c) IN
    IF hits = {}
    THEN PlanLink(c) \o PtrInsertPlan(Append(c, ZeroBucket("Ptr")), a, p, key, val)
    ELSE LET n == First(hits) IN
         IF n \in Matches("Ptr", c, a, p, key) THEN PlanUpdate(c, n, val)
         ELSE PlanNew("Ptr", BucketOf(c, n), IndexOf(c, n), key, val) \o PlanCount(1)

\* second pass of hashtable_inline_put and hashtable_pooled_put
RECURSIVE FirstEmptyPlan(_, _, _, _)
FirstEmptyPlan(v, c, key, val) ==
    IF Empties(v, c) = {}
    THEN PlanLink(c) \o FirstEmptyPlan(v, Append(c, ZeroBucket(v)), key, val)
    ELSE LET n == First(Empties(v, c)) IN
         PlanNew(v, BucketOf(c, n), IndexOf(c, n), key, val) \o PlanCount(1)

\* second pass of hashtable_tagged_put, from bucket b on
RECURSIVE TaggedWalkPlan(_, _, _, _)
TaggedWalkPlan(c, b, key, val) ==
    LET here == {n \in TaggedEmpties(c) : BucketOf(c, n) = b} IN
    IF here # {}
    THEN PlanNew("Tagged", b, IndexOf(c, First(here)), key, val)
         \o (IF b > 1 THEN << W("ooc_inc", b - 1, 0, "ooc", 0) >> ELSE << >>)
         \o PlanCount(1)
    ELSE << W("ooc_inc", b, 0, "ooc", 0) >>
         \o (IF b = Len(c)
             THEN PlanLink(c) \o TaggedWalkPlan(Append(c, ZeroBucket("Tagged")), b + 1, key, val)
             ELSE TaggedWalkPlan(c, b + 1, key, val))

FinalNewPlan(c, key, val) ==
    IF TaggedEmpties(c) # {}
    THEN LET n == First(TaggedEmpties(c)) b == BucketOf(c, n) IN
         PlanNew("Final", b, IndexOf(c, n), key, val)
         \o (IF b > 1 THEN << W("ooc_inc", b - 1, 0, "ooc", 0) >> ELSE << >>)
         \o PlanCount(1)
    ELSE [j \in 1..Len(c) |-> W("ooc_inc", j, 0, "ooc", 0)]
         \o PlanLink(c)
         \o PlanNew("Final", Len(c) + 1, 1, key, val)
         \o PlanCount(1)

\* the writes of insert(key, val) once it holds the lock of chain c
InsertPlan(v, c, a, p, key, val) ==
    LET m == Matches(v, c, a, p, key) IN
    (CASE v = "Ptr" -> PtrInsertPlan(c, a, p, key, val)
       [] v = "Inline" ->
            IF m # {} THEN PlanUpdate(c, First(m), val)
            ELSE FirstEmptyPlan(v, c, key, val)
       [] v = "Pooled" ->
            IF m # {} THEN PlanUpdate(c, First(m), val)
            ELSE << W("palloc", 0, 0, "key", 0), W("pcopy", 0, 0, "key", 0) >>
                 \o FirstEmptyPlan(v, c, key, val)
       [] v = "Tagged" ->
            IF m # {} THEN PlanUpdate(c, First(m), val)
            ELSE TaggedWalkPlan(c, 1, key, val)
       [] v = "Final" ->
            IF m # {} THEN PlanUpdate(c, First(m), val)
            ELSE FinalNewPlan(c, key, val))
    \o PlanUnlock(TRUE)

\* the writes of remove(key) once it holds the lock of chain c
RemovePlan(v, c, a, p, key) ==
    LET m == Matches(v, c, a, p, key) IN
    IF m = {} THEN PlanUnlock(FALSE)
    ELSE LET n == First(m) b == BucketOf(c, n) IN
         PlanClear(v, b, IndexOf(c, n))
         \o (IF v \in {"Tagged", "Final"} /\ b > 1
             THEN << W("ooc_dec", b - 1, 0, "ooc", 0) >> ELSE << >>)
         \o PlanCount(-1)
         \o PlanUnlock(TRUE)

(***************************************************************************)
(* Concurrent model: threads.  A writer acquires the lock of its key's     *)
(* head bucket, makes its writes one by one and releases the lock; a       *)
(* lookup takes no lock and reads one field at a time.                     *)
(***************************************************************************)
Threads == {"t1", "t2"}

\* keys of the concurrent calls: KeyA and KeyD hash to one chain, KeyC to another
ConcKeys == {KeyA, KeyC, KeyD}

\* capacity of the table of the concurrent model: two chains or more
ConcCapacity == 8

MaxLockAttempts == 10000

IdleThread ==
    [pc |-> "idle", op |-> "none", key |-> KeyEmpty, val |-> 0, ok |-> FALSE,
     ret |-> 0, plan |-> << >>, stored |-> 0, b |-> 0, i |-> 0, stage |-> "none",
     mask |-> {}, ptr |-> 0, attempts |-> 0]

ChainIdx(t) == BucketIdx(ht, HashedKey(variant, thr[t].key))
ChainOfThread(t) == ht.table[ChainIdx(t)]

\* an exchange that does not compare: it takes the lock whatever it reads
CasLock_Unchecked(lock) == [ok |-> TRUE, lock |-> LOCK_UPDATE]

\* __atomic_compare_exchange_n(&bucket->lock, &expected, LOCK_UPDATE) with
\* expected = LOCK_FREE
CasLock(lock) ==
    IF lock = LOCK_FREE THEN [ok |-> TRUE, lock |-> LOCK_UPDATE]
    ELSE [ok |-> FALSE, lock |-> lock]

\* a lock_acquire that never gives up
LockGivesUp_Never(v, lock, attempts) == FALSE

\* after a failed exchange that read lock: does lock_acquire return false.
\* attempts counts the failed exchanges of the call, this one included
LockGivesUp(v, lock, attempts) ==
    IF v \in {"Tagged", "Final"} THEN attempts > MaxLockAttempts
    ELSE lock = LOCK_RESIZE

\* a thread between its successful lock_acquire and its lock_release
Holds(t) == thr[t].pc = "write"

\* first statement of lookup's loop body
FirstStage(v) == IF v \in {"Tagged", "Final"} THEN "tags" ELSE "hash"

\* a thread enters insert(key, val), remove(key) or lookup(key)
Begin(t, op, key, val) ==
    /\ thr[t].pc = "idle"
    /\ thr' = [thr EXCEPT ![t] =
                 [IdleThread EXCEPT !.pc = IF op = "lookup" THEN "read" ELSE "acquire",
                                    !.op = op, !.key = key, !.val = val,
                                    !.b = 1, !.i = 1,
                                    !.stage = IF op = "lookup" THEN FirstStage(variant)
                                              ELSE "none"]]
    /\ UNCHANGED <<gc, variant, batch, freed, ht, allocator, pool, last, present, inserted, removed,
                   fresh, nops>>

\* lock_acquire succeeds: the exchange found the head bucket's lock free
Acquire(t) ==
    /\ thr[t].pc = "acquire"
    /\ LET idx == ChainIdx(t)
           c == ht.table[idx]
           r == CasLock(c[1].lock)
       IN /\ r.ok
          /\ ht' = [ht EXCEPT !.table[idx][1].lock = r.lock]
          /\ thr' = [thr EXCEPT ![t].pc = "write",
                                ![t].plan =
                                    IF thr[t].op = "insert"
                                    THEN InsertPlan(variant, c, allocator, pool,
                                                    thr[t].key, thr[t].val)
                                    ELSE RemovePlan(variant, c, allocator, pool, thr[t].key)]
    /\ UNCHANGED <<gc, variant, batch, freed, allocator, pool, last, present, inserted, removed,
                   fresh, nops>>

\* a put that stores its key before it has the lock, and then fails to get it
GiveUp_AfterAlloc(t) ==
    /\ thr[t].pc = "acquire"
    /\ LET r == CasLock(ChainOfThread(t)[1].lock) IN
          /\ ~r.ok
          /\ LockGivesUp(variant, r.lock, MaxLockAttempts + 1)
    /\ thr' = [thr EXCEPT ![t].pc = "done", ![t].ok = FALSE,
                          ![t].stage = "lock_failed",
                          ![t].attempts = MaxLockAttempts + 1]
    /\ allocator' = Append(allocator, thr[t].key)
    /\ UNCHANGED <<gc, variant, batch, freed, ht, pool, last, present, inserted, removed, fresh, nops>>

\* lock_acquire returns false: the last of the exchanges the call makes failed
GiveUp(t) ==
    /\ thr[t].pc = "acquire"
    /\ LET r == CasLock(ChainOfThread(t)[1].lock) IN
          /\ ~r.ok
          /\ LockGivesUp(variant, r.lock, MaxLockAttempts + 1)
    /\ thr' = [thr EXCEPT ![t].pc = "done", ![t].ok = FALSE,
                          ![t].stage = "lock_failed",
                          ![t].attempts = MaxLockAttempts + 1]
    /\ UNCHANGED <<gc, variant, batch, freed, ht, allocator, pool, last, present, inserted, removed,
                   fresh, nops>>

\* the next write of a writer; the last one is lock_release.  The pool may
\* fail to grow (oom).  A writer copies its key through the data_ pointer it
\* reads without mutex_: when another writer has expanded the pool since the
\* region was taken, the copy lands in the new buffer or in the freed one
WriteStep(t) ==
    /\ thr[t].pc = "write"
    /\ LET w == Head(thr[t].plan)
           idx == ChainIdx(t)
           st == StringAllocator_alloc(allocator, thr[t].key)
           stale == pool.capacity_ # thr[t].ptr
       IN \E oom \in IF w.k = "palloc" THEN BOOLEAN ELSE {FALSE},
             landed \in IF w.k = "pcopy" /\ stale THEN BOOLEAN ELSE {TRUE} :
          LET al == ThreadSafeKeyPool_reserve(pool, thr[t].key, oom)
              failed == w.k = "palloc" /\ al.offset = UINT32_MAX
          IN
          /\ ht' = CASE w.k = "set" ->
                          [ht EXCEPT !.table[idx][w.b].slots[w.i][w.f] = w.v]
                     [] w.k = "setptr" ->
                          [ht EXCEPT !.table[idx][w.b].slots[w.i][w.f] = thr[t].stored]
                     [] w.k = "ooc_inc" ->
                          [ht EXCEPT !.table[idx][w.b].outbound_overflow_count = IncSat(@)]
                     [] w.k = "ooc_dec" ->
                          [ht EXCEPT !.table[idx][w.b].outbound_overflow_count = DecPos(@)]
                     [] w.k = "link" ->
                          [ht EXCEPT !.table[idx] =
                              Append(@, [ZeroBucket(variant) EXCEPT !.zeroed = FALSE])]
                     [] w.k = "memset" ->
                          [ht EXCEPT !.table[idx][w.b] = ZeroBucket(variant)]
                     [] w.k = "count" -> [ht EXCEPT !.num_elements = @ + w.v]
                     [] w.k = "unlock" -> [ht EXCEPT !.table[idx][w.b].lock = w.i]
                     [] OTHER -> ht
          /\ allocator' = IF w.k = "alloc" THEN st.allocator ELSE allocator
          /\ pool' = CASE w.k = "palloc" -> al.pool
                       [] w.k = "pcopy" /\ landed ->
                            ThreadSafeKeyPool_copy(pool, thr[t].stored, thr[t].key)
                       [] OTHER -> pool
          /\ thr' = [thr EXCEPT
                       ![t].plan = IF failed THEN PlanUnlock(FALSE) ELSE Tail(@),
                       ![t].stage = IF failed THEN "alloc_failed" ELSE @,
                       ![t].stored = CASE w.k = "alloc" -> st.ptr
                                       [] w.k = "palloc" /\ ~failed -> al.offset
                                       [] OTHER -> @,
                       ![t].ptr = IF w.k = "palloc" THEN al.pool.capacity_ ELSE @,
                       ![t].pc = IF w.k = "unlock" THEN "done" ELSE @,
                       ![t].ok = IF w.k = "unlock" THEN w.v ELSE @]
    /\ UNCHANGED <<gc, variant, batch, freed, last, present, inserted, removed, fresh, nops>>

(***************************************************************************)
(* Concurrent model: lookup, one read at a time.  stage names the read the *)
(* thread makes next, at slot i of bucket b of its chain.  A bucket that   *)
(* is linked and not yet zeroed yields arbitrary values.                   *)
(***************************************************************************)
Go(r, stage, b, i, mask) == [r EXCEPT !.stage = stage, !.b = b, !.i = i, !.mask = mask]
Return(r, x) == [r EXCEPT !.pc = "done", !.ret = x, !.stage = "none"]
Crash(r) == [r EXCEPT !.pc = "crashed", !.stage = "none"]

\* where a lookup goes on when slot i is not its key
NextSlot(v, r) ==
    IF v \in {"Tagged", "Final"}
    THEN IF r.mask = {} THEN Go(r, "ooc", r.b, r.i, {})
         ELSE Go(r, "hash", r.b, First(r.mask), r.mask \ {First(r.mask)})
    ELSE Go(r, "empty", r.b, r.i, {})

\* the thread records a lookup r can have after its next read of chain c
ReadOutcomes(v, c, a, p, r) ==
    LET bk == c[r.b]
        hk == HashedKey(v, r.key)
        hash == hash_string(hk)
        len == Len(hk)
        Rd(f, match) == IF bk.zeroed THEN {bk.slots[r.i][f]} ELSE {ZeroSlot(v)[f], match}
    IN CASE r.stage = "tags" ->
              {IF m = {} THEN Go(r, "ooc", r.b, r.i, {})
               ELSE Go(r, "hash", r.b, First(m), m \ {First(m)}) :
                  m \in IF bk.zeroed THEN {match_tags_4(bk, TagOf(hash))}
                        ELSE SUBSET (1..EntriesPerBucket(v))}
         [] r.stage = "hash" ->
              {IF h = hash
               THEN Go(r, IF v = "Pooled" THEN "off" ELSE "len", r.b, r.i, r.mask)
               ELSE NextSlot(v, r) : h \in Rd("hash", hash)}
         [] r.stage = "off" ->
              {IF PoolGetIsNull(p, o) THEN NextSlot(v, r)
               ELSE [Go(r, "len", r.b, r.i, r.mask) EXCEPT !.ptr = o] : o \in Rd("key", 0)}
         [] r.stage = "len" ->
              {IF l = len THEN Go(r, "cmp", r.b, r.i, r.mask)
               ELSE NextSlot(v, r) : l \in Rd("len", len)}
         [] r.stage = "cmp" /\ v = "Inline" ->
              {IF compare_key_inline(bytes, r.key, len, len)
               THEN Go(r, "val", r.b, r.i, r.mask)
               ELSE NextSlot(v, r) : bytes \in Rd("key", copy_key_inline(r.key, len))}
         [] r.stage = "cmp" /\ v = "Pooled" ->
              {IF strcmp_simd(r.key, PoolBytes(p, r.ptr), len) = 0
               THEN Go(r, "val", r.b, r.i, r.mask)
               ELSE NextSlot(v, r)}
         [] r.stage = "cmp" /\ v \in {"Ptr", "Tagged", "Final"} ->
              \* strcmp_simd reads through the key pointer when len > 0
              {IF q = NULL /\ len > 0 THEN Crash(r)
               ELSE IF strcmp_simd(r.key, PtrBytes(a, q), len) = 0
               THEN Go(r, "val", r.b, r.i, r.mask)
               ELSE NextSlot(v, r) : q \in Rd("key", NULL)}
         [] r.stage = "val" -> {Return(r, x) : x \in Rd("val", 1)}
         [] r.stage = "empty" ->
              {IF h = {} THEN Return(r, UINTPTR_MAX)
               ELSE IF r.i < EntriesPerBucket(v) THEN Go(r, "hash", r.b, r.i + 1, {})
               ELSE Go(r, "next", r.b, r.i, {}) : h \in Rd("hash", hash)}
         [] r.stage = "ooc" ->
              {IF EarlyExit(n) THEN Return(r, UINTPTR_MAX)
               ELSE Go(r, "next", r.b, r.i, {}) :
                  n \in IF bk.zeroed THEN {bk.outbound_overflow_count} ELSE {0, 1}}
         [] r.stage = "next" ->
              IF ~bk.zeroed THEN {Return(r, UINTPTR_MAX), Crash(r)}
              ELSE IF r.b < Len(c) THEN {Go(r, FirstStage(v), r.b + 1, 1, {})}
              ELSE {Return(r, UINTPTR_MAX)}

\* a lookup of key that is about to make its first read
StartLookup(v, key) ==
    [IdleThread EXCEPT !.pc = "read", !.op = "lookup", !.key = key, !.b = 1, !.i = 1,
                       !.stage = FirstStage(v)]

\* a lookup run from r to its end with no writer in between: how it ends,
\* what it returns and how many times it loads bucket->next
RECURSIVE LookupRun(_, _, _, _, _)
LookupRun(v, c, a, p, r) ==
    IF r.pc # "read" THEN [pc |-> r.pc, ret |-> r.ret, nexts |-> 0]
    ELSE LET o == CHOOSE x \in ReadOutcomes(v, c, a, p, r) : TRUE
         IN [LookupRun(v, c, a, p, o) EXCEPT
                !.nexts = @ + (IF r.stage = "next" THEN 1 ELSE 0)]

\* the next read of a lookup
ReadStep(t) ==
    /\ thr[t].pc = "read"
    /\ \E o \in ReadOutcomes(variant, ChainOfThread(t), allocator, pool, thr[t]) :
          thr' = [thr EXCEPT ![t] = o]
    /\ UNCHANGED <<gc, variant, batch, freed, ht, allocator, pool, last, present, inserted, removed,
                   fresh, nops>>

\* the table after the first n inserts, of capacity ConcCapacity, and idle threads
InitConc ==
    /\ gc = NoGc
    /\ variant \in Variants
    /\ \E n \in 0..MaxFirst :
          LET m == IF n < Len(FirstKeys) THEN n ELSE Len(FirstKeys)
              w == AfterFirst(variant, ConcCapacity, m)
          IN /\ ht = w.ht
             /\ allocator = w.allocator
             /\ pool = w.pool
             /\ present = [k \in Keys |->
                             IF \E i \in 1..m : FirstKeys[i] = k THEN 1 ELSE UINTPTR_MAX]
             /\ inserted = {FirstKeys[i] : i \in 1..m}
    /\ removed = {}
    /\ fresh = TRUE
    /\ last = NoCall
    /\ nops = 0
    /\ thr = [t \in Threads |-> IdleThread]
    /\ batch = NoBatch
    /\ freed = << >>

NextConc ==
    \/ \E t \in Threads, key \in ConcKeys, val \in Values : Begin(t, "insert", key, val)
    \/ \E t \in Threads, key \in ConcKeys : Begin(t, "remove", key, 0)
    \/ \E t \in Threads, key \in ConcKeys : Begin(t, "lookup", key, 0)
    \/ \E t \in Threads : Acquire(t)
    \/ \E t \in Threads : GiveUp(t)
    \/ \E t \in Threads : WriteStep(t)
    \/ \E t \in Threads : ReadStep(t)

SpecConc == InitConc /\ [][NextConc]_vars

(***************************************************************************)
(* Lock acquisition, one exchange at a time: two threads call remove on    *)
(* one chain of the table as created.  attempts counts the failed          *)
(* exchanges of a call; ClhtStrTagged and ClhtStrFinal keep that count     *)
(* themselves, for the other variants it is history.                       *)
(***************************************************************************)
\* one iteration of lock_acquire's loop
TryLock(t) ==
    /\ thr[t].pc = "acquire"
    /\ thr[t].attempts < MaxSpin
    /\ LET idx == ChainIdx(t)
           c == ht.table[idx]
           r == CasLock(c[1].lock)
       IN IF r.ok
          THEN /\ ht' = [ht EXCEPT !.table[idx][1].lock = r.lock]
               /\ thr' = [thr EXCEPT ![t].pc = "write",
                                     ![t].plan = RemovePlan(variant, c, allocator, pool,
                                                            thr[t].key)]
          ELSE /\ ht' = ht
               /\ thr' = IF LockGivesUp(variant, r.lock, thr[t].attempts + 1)
                         THEN [thr EXCEPT ![t].attempts = @ + 1, ![t].pc = "done",
                                          ![t].ok = FALSE, ![t].stage = "lock_failed"]
                         ELSE [thr EXCEPT ![t].attempts = @ + 1]
    /\ UNCHANGED <<gc, variant, batch, freed, allocator, pool, last, present, inserted, removed,
                   fresh, nops>>

InitSpin ==
    /\ gc = NoGc
    /\ variant \in Variants
    /\ LET w == AfterFirst(variant, ConcCapacity, 0) IN
          /\ ht = w.ht
          /\ allocator = w.allocator
          /\ pool = w.pool
    /\ present = [k \in Keys |-> UINTPTR_MAX]
    /\ inserted = {}
    /\ removed = {}
    /\ fresh = TRUE
    /\ last = NoCall
    /\ nops = 0
    /\ thr = [t \in Threads |-> IdleThread]
    /\ batch = NoBatch
    /\ freed = << >>

NextSpin ==
    \/ \E t \in Threads : Begin(t, "remove", KeyA, 0)
    \/ \E t \in Threads : TryLock(t)
    \/ \E t \in Threads : WriteStep(t)

SpecSpin == InitSpin /\ [][NextSpin]_vars

(***************************************************************************)
(* Properties of the sequential model.                                     *)
(***************************************************************************)

\* C1: Round-trip.  An insert(k, v) that returned true, followed at once by
\* lookup(k), gives v, for every key (the empty string too) and value.
C1_RoundTrip ==
    (last.op = "insert" /\ last.ret = TRUE) => lookup(last.key) = last.val

\* C2: Update semantics.  insert(k, v2) on a key that is present returns
\* true, leaves size() as it was and makes lookup(k) return v2.
C2_UpdateSemantics ==
    (last.op = "insert" /\ last.before # UINTPTR_MAX) =>
        /\ last.ret = TRUE
        /\ size = last.size0
        /\ lookup(last.key) = last.val

\* C3: Removing or inserting other keys never disturbs a key.  A key that
\* was inserted with a value and not removed since still looks up to that
\* value after a call on another key.
C3_OthersUndisturbed ==
    \A k \in Keys :
        (/\ present[k] # UINTPTR_MAX
         /\ last.op \in {"insert", "remove"}
         /\ last.key # k) => lookup(k) = present[k]

\* C4: Remove-then-lookup.  After remove(k) returned true, lookup(k) is
\* UINTPTR_MAX until the next insert(k, .); that insert returns true and
\* lookup(k) then gives its value.
C4_RemoveThenLookup ==
    /\ \A k \in removed : lookup(k) = UINTPTR_MAX
    /\ (last.op = "insert" /\ last.was_removed) =>
          (last.ret = TRUE /\ lookup(last.key) = last.val)

\* C5: Absence.  lookup(k) is UINTPTR_MAX for every key no insert was made
\* with since the table's creation, the empty string included.
C5_Absence ==
    \A k \in Keys \ inserted : lookup(k) = UINTPTR_MAX

\* C6: Collision survival.  When only distinct keys of one bucket index were
\* inserted, more of them than a bucket has slots, and nothing was removed,
\* every insert returned true, every key looks up to its own value and
\* size() is the number of keys.
SameBucket(S) ==
    \A k1, k2 \in S : BucketIdx(ht, HashedKey(variant, k1)) =
                      BucketIdx(ht, HashedKey(variant, k2))

C6_CollisionSurvival ==
    (/\ fresh
     /\ SameBucket(inserted)
     /\ Cardinality(inserted) > EntriesPerBucket(variant)) =>
        /\ \A k \in inserted : present[k] # UINTPTR_MAX /\ lookup(k) = present[k]
        /\ size = Cardinality(inserted)

(***************************************************************************)
(* Properties of the concurrent model.                                     *)
(***************************************************************************)
\* C7: a lookup(k) that runs concurrently with one insert(k, v) of a key that
\* was absent before returns UINTPTR_MAX or v, whatever the interleaving of the
\* insert's field writes with the lookup's reads
C7_NoPartialEntry ==
    \A r \in Threads, w \in Threads :
        (/\ thr[r].op = "lookup"
         /\ thr[r].pc \in {"done", "crashed"}
         /\ thr[w].op = "insert"
         /\ thr[w].key = thr[r].key
         /\ thr[r].key \notin inserted)
        => (thr[r].pc = "done" /\ thr[r].ret \in {UINTPTR_MAX, thr[w].val})

\* the writes of a plan that go to slots
SlotWrites(plan) == {j \in 1..Len(plan) : plan[j].k \in {"set", "setptr"}}

\* C8: a lookup(k) concurrent with remove(k) never crashes, that is, never
\* hands a cleared, null key pointer to the key comparison; and the remove
\* writes the removed key's slot and the counters, nothing else
C8_DeletionRaceSafety ==
    \A r \in Threads, w \in Threads :
        (thr[w].op = "remove" /\ thr[r].op = "lookup" /\ thr[r].key = thr[w].key)
        => /\ thr[r].pc # "crashed"
           /\ \A j \in 1..Len(thr[w].plan) :
                 /\ thr[w].plan[j].k \in {"set", "ooc_dec", "count", "unlock"}
                 /\ \A k \in SlotWrites(thr[w].plan) :
                       j \in SlotWrites(thr[w].plan) =>
                          (thr[w].plan[j].b = thr[w].plan[k].b
                           /\ thr[w].plan[j].i = thr[w].plan[k].i)

\* the threads between a successful lock acquisition on the head bucket of
\* chain idx and the matching release
Holders(idx) == {t \in Threads : Holds(t) /\ ChainIdx(t) = idx}

\* C9: for every head bucket at most one thread at a time is between its
\* successful lock acquisition on that head and the matching release; the
\* head's lock is held exactly then, so that no writer acquires or releases
\* the lock of another chain, and the exchange of a waiting writer fails only
\* while the lock of its own chain is held
C9_WriterMutualExclusion ==
    /\ \A idx \in DOMAIN ht.table :
          /\ Cardinality(Holders(idx)) <= 1
          /\ ht.table[idx][1].lock = IF Holders(idx) = {} THEN LOCK_FREE ELSE LOCK_UPDATE
          /\ \A b \in 2..Len(ht.table[idx]) : ht.table[idx][b].lock = LOCK_FREE
    /\ \A t \in Threads :
          thr[t].pc = "acquire" =>
              (CasLock(ChainOfThread(t)[1].lock).ok <=> Holders(ChainIdx(t)) = {})

\* C9 happens: a writer holds the lock of a chain while the other thread is
\* trying to acquire it
C9_Witness ==
    \E t \in Threads, u \in Threads :
        /\ t # u
        /\ Holds(t)
        /\ thr[u].pc = "acquire"
        /\ ChainIdx(t) = ChainIdx(u)

C11_LockFailureAbort ==
    [][\A t \in Threads :
          /\ (thr'[t] # thr[t] /\ thr'[t].pc \in {"acquire", "done"}
                               /\ thr[t].pc \in {"idle", "acquire"})
                => (ht' = ht /\ allocator' = allocator /\ pool' = pool)
          /\ thr[t].stage = "lock_failed" => thr'[t] = thr[t]]_vars

\* C11 happens: an insert has returned false on a held lock, and so has a remove
C11_Witness ==
    \E t \in Threads, u \in Threads :
        /\ thr[t].stage = "lock_failed"
        /\ thr[t].op = "insert"
        /\ thr[t].pc = "done"
        /\ thr[u].pc = "done"
        /\ thr[u].ok = TRUE

\* some key is stored in a bucket after bucket b of chain c
StoredAfter(c, b) ==
    \E b2 \in (b + 1)..Len(c) : \E i \in 1..Len(c[b2].slots) :
        c[b2].slots[i].tag # EMPTY_TAG

\* C12: in ClhtStrTagged and ClhtStrFinal, after any sequence of inserts and
\* removes of one thread, every bucket that has a key stored in a later
\* bucket of its chain counts an overflow (outbound_overflow_count > 0), and
\* so the lookup of a present key is never ended NOT_FOUND by the early exit
C12_EarlyExitSoundness ==
    variant \in {"Tagged", "Final"} =>
        /\ \A idx \in DOMAIN ht.table : \A b \in 1..Len(ht.table[idx]) :
              StoredAfter(ht.table[idx], b)
                  => ht.table[idx][b].outbound_overflow_count > 0
        /\ \A k \in Keys : present[k] # UINTPTR_MAX => lookup(k) # UINTPTR_MAX

\* C12 happens: a remove has succeeded and a key is still stored in an
\* overflow bucket of a chain
C12_Witness ==
    /\ variant \in {"Tagged", "Final"}
    /\ last.op = "remove"
    /\ last.ret = TRUE
    /\ \E idx \in DOMAIN ht.table : StoredAfter(ht.table[idx], 1)

\* C13: in every variant, when no mutation is in flight, size() is the number
\* of distinct keys inserted and not removed since: a new key adds 1, an
\* update 0, a successful remove subtracts 1, the empty string included
C13_ElementCount ==
    size = Cardinality({k \in Keys : present[k] # UINTPTR_MAX})

\* C14: a lookup is lock-free and read-only: every step of a lookup leaves
\* the table, the arena and the pool as they were and takes the lookup to its
\* next read or to its return, never to a lock acquisition, a write or a
\* crash; and a lookup that has not returned can take its next step whatever
\* the state of the chain's lock, so it returns even if the holder never
\* releases
C14_LockFreeLookup ==
    [][\A t \in Threads :
          /\ (thr'[t].op = "lookup" /\ thr'[t] # thr[t])
                => /\ ht' = ht /\ allocator' = allocator /\ pool' = pool
                   /\ thr'[t].pc \in {"read", "done"}
          /\ (thr'[t].op = "lookup" /\ thr'[t].pc = "read")
                => ReadOutcomes(variant, ChainOfThread(t)', allocator', pool',
                                thr'[t]) # {}]_vars

\* C15: in ClhtStrTagged and ClhtStrFinal, when the chain of head bucket B
\* has never received an overflow bucket, a lookup of a never-inserted key
\* that hashes to B returns NOT_FOUND without loading a next pointer
C15_EarlyExitOnZeroOverflow ==
    variant \in {"Tagged", "Final"} =>
        \A k \in Keys :
            (k \notin inserted /\ Len(ChainOf(variant, ht, k)) = 1)
            => LET run == LookupRun(variant, ChainOf(variant, ht, k), allocator, pool,
                                    StartLookup(variant, k))
               IN /\ run.pc = "done" /\ run.ret = UINTPTR_MAX /\ run.nexts = 0
                  /\ lookup(k) = UINTPTR_MAX

\* a lookup of a never-inserted key has returned NOT_FOUND from a head bucket
\* that holds other keys and has no overflow bucket
C15_Witness ==
    /\ variant \in {"Tagged", "Final"}
    /\ last.op = "lookup" /\ last.key \notin inserted /\ last.ret = UINTPTR_MAX
    /\ Len(ChainOf(variant, ht, last.key)) = 1
    /\ \E i \in 1..EntriesPerBucket(variant) :
          ChainOf(variant, ht, last.key)[1].slots[i].tag # EMPTY_TAG
    /\ LookupRun(variant, ChainOf(variant, ht, last.key), allocator, pool,
                 StartLookup(variant, last.key)).nexts = 0

\* C16: in every variant, remove(k) of a key k that is not present returns
\* false and leaves every slot, overflow count, chain link, the element count
\* and the head lock as they were, the lock released
C16_RemoveAbsentIsNoOp ==
    [][(last'.op = "remove" /\ nops' = nops + 1 /\ present[last'.key] = UINTPTR_MAX)
          => /\ last'.ret = FALSE
             /\ ht' = ht /\ allocator' = allocator /\ pool' = pool
             /\ ChainOf(variant, ht, last'.key)[1].lock = LOCK_FREE]_vars

\* the slots of chain c that hold the first 16 bytes of key as an inline key
InlineEntries(c, key) ==
    {n \in 1..NumPos(c) :
        /\ SlotAt(c, n).hash # {}
        /\ SlotAt(c, n).key = copy_key_inline(key, INLINE_STR_MAX_LEN)
        /\ SlotAt(c, n).len = INLINE_STR_MAX_LEN}

\* C17: in ClhtStrInline, after insert(K, v) of a key K longer than 16 bytes,
\* lookup of the 16-byte prefix of K and of every key with that prefix
\* returns v, and the table holds a single entry for the prefix, whichever
\* keys with that prefix were inserted before
C17_InlineTruncation ==
    (variant = "Inline" /\ last.op = "insert" /\ Len(last.key) > INLINE_STR_MAX_LEN)
    => /\ last.ret = TRUE
       /\ \A k \in LongKeys :
             (Len(k) >= INLINE_STR_MAX_LEN
              /\ Prefix(k, INLINE_STR_MAX_LEN) = Prefix(last.key, INLINE_STR_MAX_LEN))
             => lookup(k) = last.val
       /\ Cardinality(InlineEntries(ChainOf(variant, ht, last.key), last.key)) = 1

\* two keys one of which is the other with bytes added: the same leading
\* bytes, different declared lengths
LengthVariants(k1, k2) ==
    \/ Len(k1) < Len(k2) /\ Prefix(k2, Len(k1)) = k1
    \/ Len(k2) < Len(k1) /\ Prefix(k1, Len(k2)) = k2

\* C18: keys with the same leading bytes and different declared lengths are
\* distinct keys: a call on one leaves the value and the presence of the
\* other as they were, and an insert of one stores it with its own value
C18_LengthSensitivity ==
    [][\A k1 \in LongKeys, k2 \in LongKeys :
          (nops' = nops + 1 /\ last'.key = k1 /\ LengthVariants(k1, k2))
          => /\ lookupIn(ht', allocator', pool', k2) = lookup(k2)
             /\ last'.op = "insert"
                   => (last'.ret = TRUE
                       /\ lookupIn(ht', allocator', pool', k1) = last'.val)]_vars

\* C19: in ClhtStrPtr, ClhtStrTagged and ClhtStrFinal a key of any length,
\* 65,536 bytes included, is found with its value after its insert, and every
\* key copied into the arena is written inside the chunk it was given
C19_UnboundedKeyLength ==
    variant \in PtrVariants =>
        /\ (last.op = "insert" /\ last.ret = TRUE) => lookup(last.key) = last.val
        /\ \A n \in 1..Len(allocator) : ArenaWriteInside(allocator, n)

\* the slot holds a key whose bytes the pool holds at the slot's offset
HoldsItsBytes(p, slot) ==
    \E n \in 1..Len(p.data) :
        /\ p.data[n].off = slot.key
        /\ hash_string(p.data[n].str) = slot.hash
        /\ Len(p.data[n].str) % 65536 = slot.len

\* C20: in ClhtStrPooled, when the pool cannot grow, alloc returns the
\* sentinel and leaves the pool as it was, and the put then changes no slot
\* and no counter, releases the head lock and returns false; and every key
\* stored in a chain that no writer holds has an offset at which the pool
\* holds the bytes of that key
C20_PoolExhaustion ==
    [][variant = "Pooled" =>
          /\ \A t \in Threads :
                /\ (thr[t].stage # "alloc_failed" /\ thr'[t].stage = "alloc_failed")
                      => (pool' = pool /\ ht' = ht /\ allocator' = allocator)
                /\ (thr[t].stage = "alloc_failed" /\ thr'[t] # thr[t])
                      => /\ thr'[t].pc = "done" /\ thr'[t].ok = FALSE
                         /\ ht' = [ht EXCEPT !.table[ChainIdx(t)][1].lock = LOCK_FREE]
                         /\ pool' = pool /\ allocator' = allocator
          /\ \A idx \in DOMAIN ht'.table :
                ht'.table[idx][1].lock = LOCK_FREE
                => \A b \in 1..Len(ht'.table[idx]) :
                      \A i \in 1..EntriesPerBucket(variant) :
                         ht'.table[idx][b].slots[i].hash # {}
                         => HoldsItsBytes(pool', ht'.table[idx][b].slots[i])]_vars

(***************************************************************************)
(* Creation: a table of every requested capacity up to MaxCapacity, as     *)
(* its constructor leaves it, and the calls made on it.  last holds the    *)
(* constructor call and the capacity it was given.                         *)
(***************************************************************************)
MaxCapacity == 9       \* requested capacities are 0..MaxCapacity

Created(capacity) ==
    [op |-> "create", key |-> KeyEmpty, val |-> capacity, ret |-> 0,
     before |-> UINTPTR_MAX, size0 |-> 0, was_removed |-> FALSE]

InitCreate ==
    /\ gc = NoGc
    /\ variant \in Variants
    /\ \E capacity \in 0..MaxCapacity :
          LET w == AfterKeys(variant, capacity, << >>)
          IN /\ ht = w.ht
             /\ allocator = w.allocator
             /\ pool = w.pool
             /\ last = Created(capacity)
    /\ present = [k \in Keys |-> UINTPTR_MAX]
    /\ inserted = {}
    /\ removed = {}
    /\ fresh = TRUE
    /\ nops = 0
    /\ thr = Idle
    /\ batch = NoBatch
    /\ freed = << >>

SpecCreate == InitCreate /\ [][Next]_vars

IsPow2(n) == \E e \in 0..n : Pow2(e) = n

\* a bucket as the claim describes it after create
EmptyBucket(b) ==
    /\ b.lock = LOCK_FREE
    /\ b.outbound_overflow_count = 0
    /\ \A i \in 1..Len(b.slots) :
          /\ b.slots[i].tag = EMPTY_TAG
          /\ b.slots[i].hash = {}
          /\ b.slots[i].len = 0
          /\ b.slots[i].val = 0

\* C30: Create sizing.  For every requested capacity, 0 and 1 included, the
\* table its constructor returns has a bucket count that is the smallest
\* power of two whose buckets hold the capacity (bucket count times entries
\* per bucket is at least the capacity), its mask is the bucket count minus
\* one, and every bucket has all slots empty, its lock free, its overflow
\* count 0 and no overflow bucket linked.
C30_CreateSizing ==
    last.op = "create" =>
        LET E == EntriesPerBucket(variant)
            capacity == last.val
        IN /\ IsPow2(ht.size)
           /\ ht.size * E >= capacity
           /\ ht.size = 1 \/ (ht.size \div 2) * E < capacity
           /\ ht.mask = ht.size - 1
           /\ DOMAIN ht.table = 0..(ht.size - 1)
           /\ \A idx \in DOMAIN ht.table :
                 /\ Len(ht.table[idx]) = 1
                 /\ EmptyBucket(ht.table[idx][1])

\* the slots of the table: chain, bucket and slot index
AllSlots ==
    UNION {{<<idx, b, i>> : b \in 1..Len(ht.table[idx]),
                            i \in 1..EntriesPerBucket(variant)} : idx \in DOMAIN ht.table}

\* C26: Tag sentinel.  In ClhtStrTagged and ClhtStrFinal, in every state with
\* no call in progress, a slot's tag is 0 exactly when the slot holds no key
\* (its key pointer is null), the tag of every slot that holds a key has its
\* high bit set (is in 128..255), and every present key, the empty string
\* with hash 0 included, is held by a slot with such a tag.
C26_TagSentinel ==
    variant \in {"Tagged", "Final"} =>
        /\ \A p \in AllSlots :
              LET s == ht.table[p[1]][p[2]].slots[p[3]] IN
              /\ s.tag = EMPTY_TAG <=> s.key = NULL
              /\ s.key # NULL => s.tag \in 128..255
        /\ \A k \in Keys : present[k] # UINTPTR_MAX =>
              \E p \in AllSlots :
                 LET s == ht.table[p[1]][p[2]].slots[p[3]] IN
                 /\ s.key # NULL
                 /\ PtrBytes(allocator, s.key) = k
                 /\ s.hash = hash_string(k)
                 /\ s.tag \in 128..255

\* C26 happens: the empty string is stored in a tagged table and a remove
\* has emptied a slot
C26_Witness ==
    /\ variant \in {"Tagged", "Final"}
    /\ present[KeyEmpty] # UINTPTR_MAX
    /\ last.op = "remove"
    /\ last.ret = TRUE
    /\ \E p \in AllSlots : ht.table[p[1]][p[2]].slots[p[3]].tag = EMPTY_TAG

\* the number of keys of chain c stored in its overflow (non-head) buckets
OverflowKeys(c) ==
    Cardinality({n \in 1..NumPos(c) : BucketOf(c, n) > 1 /\ SlotAt(c, n).tag # EMPTY_TAG})

\* C25: Exact overflow bookkeeping.  In ClhtStrTagged and ClhtStrFinal, in
\* every state with no writer in flight, a head bucket whose
\* outbound_overflow_count is below its saturation value 255 counts exactly
\* the keys of its chain that are stored in overflow buckets (so an insert
\* adds 1 exactly when it places a new key in an overflow bucket and a remove
\* subtracts 1 exactly when it removes a key from one).
C25_ExactOverflowBookkeeping ==
    variant \in {"Tagged", "Final"} =>
        \A idx \in DOMAIN ht.table :
            LET c == ht.table[idx] IN
            c[1].outbound_overflow_count < OverflowCountMax
                => c[1].outbound_overflow_count = OverflowKeys(c)

\* sequence a is a prefix of sequence b
IsPrefix(a, b) == Len(a) <= Len(b) /\ SubSeq(b, 1, Len(a)) = a

MaxHistory == 4        \* calls made before the first state
CycleKeys == {KeyA, KeyB, KeyC}
CycleCapacity == 1
CycleCalls == {[op |-> o, key |-> k] : o \in {"insert", "remove"}, k \in CycleKeys}

\* the call sequences of length n or less
RECURSIVE Histories(_)
Histories(n) ==
    IF n = 0 THEN {<< >>}
    ELSE LET H == Histories(n - 1) IN
         H \cup {Append(h, c) : h \in {x \in H : Len(x) = n - 1}, c \in CycleCalls}

\* the table and what is known of it after create and the calls of a
\* sequence, inserts made with value 1
\* one call on the table w: put with value 1, or remove
CallStep(v, w, call) ==
    LET key == call.key
        idx == BucketIdx(w.ht, HashedKey(v, key))
        r == IF call.op = "insert"
             THEN put(v, w.ht.table[idx], w.allocator, w.pool, key, 1, FALSE)
             ELSE rem(v, w.ht.table[idx], w.allocator, w.pool, key)
    IN [ht |-> [w.ht EXCEPT !.table[idx] = r.chain, !.num_elements = @ + r.delta],
        allocator |-> r.allocator,
        pool |-> r.pool,
        present |-> IF ~r.ret THEN w.present
                    ELSE [w.present EXCEPT ![key] = IF call.op = "insert" THEN 1
                                                    ELSE UINTPTR_MAX],
        inserted |-> IF call.op = "insert" THEN w.inserted \cup {key} ELSE w.inserted,
        removed |-> IF call.op = "insert" THEN w.removed \ {key}
                    ELSE IF r.ret THEN w.removed \cup {key} ELSE w.removed,
        fresh |-> w.fresh /\ call.op = "insert" /\ key \notin w.inserted]

RECURSIVE AfterCalls(_, _, _)
AfterCalls(v, capacity, calls) ==
    IF calls = << >>
    THEN [ht |-> hashtable_create(v, capacity), allocator |-> << >>,
          pool |-> ThreadSafeKeyPool(InitialPoolSize),
          present |-> [k \in Keys |-> UINTPTR_MAX], inserted |-> {}, removed |-> {},
          fresh |-> TRUE]
    ELSE LET n == Len(calls)
         IN CHOOSE x \in {CallStep(v, w, calls[n]) :
                            w \in {AfterCalls(v, capacity, SubSeq(calls, 1, n - 1))}} : TRUE

InitCycle ==
    /\ gc = NoGc
    /\ variant \in Variants
    /\ \E calls \in Histories(MaxHistory) :
          \E w \in {AfterCalls(variant, CycleCapacity, calls)} :
             /\ ht = w.ht
             /\ allocator = w.allocator
             /\ pool = w.pool
             /\ present = w.present
             /\ inserted = w.inserted
             /\ removed = w.removed
             /\ fresh = w.fresh
    /\ last = NoCall
    /\ nops = 0
    /\ thr = Idle
    /\ batch = NoBatch
    /\ freed = << >>

NextCycle ==
    \/ \E key \in CycleKeys : Insert(key, 1)
    \/ \E key \in CycleKeys : Remove(key)
    \/ \E key \in CycleKeys : Lookup(key)

SpecCycle == InitCycle /\ [][NextCycle]_vars

\* a slot that an insert does not take for empty
Occupied(v, s) == IF v \in {"Tagged", "Final"} THEN s.tag # EMPTY_TAG ELSE s.hash # {}

\* the keys that were ever inserted into the chain of head bucket idx: no
\* more keys than these are in the chain at any one time
EverInChain(idx) == {k \in inserted : BucketIdx(ht, HashedKey(variant, k)) = idx}

CeilDiv(a, b) == (a + b - 1) \div b

\* C27: No tombstones, slots are reused.  In each chain variant a step that
\* links a new overflow bucket to a chain finds every slot of every bucket
\* of the chain occupied; and a chain never has more buckets than its keys
\* need: at most ceil(m / slots per bucket) buckets (one for m = 0) when no
\* more than m keys were ever in the chain at one time, however many
\* inserts and removes were made.
C27_NoTombstones ==
    /\ [][\A idx \in DOMAIN ht.table :
             Len(ht'.table[idx]) > Len(ht.table[idx]) =>
                 \A n \in 1..NumPos(ht.table[idx]) :
                     Occupied(variant, SlotAt(ht.table[idx], n))]_vars
    /\ [](\A idx \in DOMAIN ht.table :
             LET m == Cardinality(EverInChain(idx))
                 E == EntriesPerBucket(variant)
             IN Len(ht.table[idx]) <= IF m = 0 THEN 1 ELSE CeilDiv(m, E))

(***************************************************************************)
(* Destruction: the destructor of the table's class runs after the calls.  *)
(* The heap blocks of a table are its overflow buckets (chain idx, bucket  *)
(* b >= 2), the base bucket array, the hashtable struct and the arena or   *)
(* the pool.  freed lists the blocks in the order they are freed; ht keeps *)
(* the chains as they were, to tell what had been allocated.               *)
(***************************************************************************)
OverflowBlock(idx, b) == [kind |-> "bucket", idx |-> idx, b |-> b]
TableBlock == [kind |-> "table", idx |-> 0, b |-> 0]
StructBlock == [kind |-> "ht", idx |-> 0, b |-> 0]
StoreBlock(v) == [kind |-> IF v = "Pooled" THEN "pool" ELSE "allocator", idx |-> 0, b |-> 0]

\* while (bucket) { next = bucket->next; free(bucket); bucket = next; } from
\* the head's next on, for the heads i .. size - 1
RECURSIVE FreeOverflow(_, _)
FreeOverflow(h, i) ==
    IF i >= h.size THEN << >>
    ELSE [b \in 1..(Len(h.table[i]) - 1) |-> OverflowBlock(i, b + 1)] \o FreeOverflow(h, i + 1)

\* hashtable_*_destroy: the blocks it frees, in order
hashtable_destroy(v, h) ==
    (IF v = "Ptr" THEN << >> ELSE FreeOverflow(h, 0)) \o << TableBlock, StructBlock >>

\* the destructor of the class: destroy, then delete allocator_ or pool_
Destructor(v, h) ==
    hashtable_destroy(v, h) \o (IF v = "Inline" THEN << >> ELSE << StoreBlock(v) >>)

Alive == freed = << >>

Destroy ==
    /\ Alive
    /\ freed' = Destructor(variant, ht)
    /\ UNCHANGED <<gc, variant, ht, allocator, pool, last, present, inserted, removed, fresh,
                   nops, thr, batch>>

NextDestroy ==
    \/ Alive /\ \E key \in Keys, val \in Values : Insert(key, val)
    \/ Alive /\ \E key \in Keys : Remove(key)
    \/ Alive /\ \E key \in Keys : Lookup(key)
    \/ Destroy

SpecDestroy == Init /\ [][NextDestroy]_vars

\* the overflow buckets that inserts have allocated for the table
OverflowBlocks ==
    UNION {{OverflowBlock(idx, b) : b \in 2..Len(ht.table[idx])} : idx \in DOMAIN ht.table}

\* the positions of block x in the sequence of frees
FreedAt(x) == {n \in 1..Len(freed) : freed[n] = x}

\* C29: Destroy releases everything.  In each of the five variants, once the
\* table is destroyed every overflow bucket that an insert allocated for it
\* has been freed, once, before the base bucket array, and the base array
\* before the arena or the pool of the variants that have one: no bucket of
\* the table remains allocated.
C29_DestroyReleasesEverything ==
    ~Alive =>
        /\ \A x \in OverflowBlocks \cup {TableBlock} : Cardinality(FreedAt(x)) = 1
        /\ \A x \in OverflowBlocks : \A n \in FreedAt(x) : \A m \in FreedAt(TableBlock) : n < m
        /\ variant # "Inline" =>
              /\ Cardinality(FreedAt(StoreBlock(variant))) = 1
              /\ \A n \in FreedAt(TableBlock) : \A m \in FreedAt(StoreBlock(variant)) : n < m

(***************************************************************************)
(* ParallelClhtStr: batch calls on a HashtableFinal.  batch_lookup runs    *)
(* the fork-join task lookup_str on the whole index range: a task of more  *)
(* than THRESHOLD keys splits its range in two halves that are tasks of    *)
(* their own, a task of THRESHOLD keys or fewer looks its keys up one      *)
(* after the other, and sync_wait returns when every task has ended.  The  *)
(* threads of the pool take the tasks in any order.  A range is lo..hi-1   *)
(* (from 0) of the vector the task was started on, which begins at index   *)
(* base of the batch's keys.                                               *)
(***************************************************************************)
MaxBatch == 66         \* longest keys vector of a batch_lookup
SmallBatch == 6        \* longest keys vector of a batch_insert or batch_mixed
LookupThreshold == 64  \* THRESHOLD of lookup_str_overload
InsertThreshold == 32  \* THRESHOLD of insert_str_overload

\* the first n keys of FirstKeys repeated, and values 1, 2, .. repeated
RECURSIVE BatchKeys(_)
BatchKeys(n) ==
    IF n = 0 THEN << >>
    ELSE Append(BatchKeys(n - 1), FirstKeys[((n - 1) % Len(FirstKeys)) + 1])

RECURSIVE BatchValues(_)
BatchValues(n) ==
    IF n = 0 THEN << >> ELSE Append(BatchValues(n - 1), ((n - 1) % MaxValue) + 1)

\* what the caller's results vector holds before the call
StaleResults == {<< >>, <<7>>}

\* std::vector::resize(n): the first elements are kept, new ones are 0
Resize(results, n) == [j \in 1..n |-> IF j <= Len(results) THEN results[j] ELSE 0]

NoRun == [lo |-> 0, hi |-> 0, i |-> 0]
Range(lo, hi) == [lo |-> lo, hi |-> hi]

\* a batch call that has just been entered
BatchCall(op, keys, values, results) ==
    [op |-> op, keys |-> keys, values |-> values, results |-> results,
     phase |-> "done", i |-> 0, stop |-> 0, base |-> 0, ratio |-> 0, ready |-> {},
     run |-> [t \in Threads |-> NoRun],
     size0 |-> ht.num_elements,
     absent0 |-> {k \in Keys : lookup(k) = UINTPTR_MAX}]

\* batch_lookup on the keys from index base on: nothing for no keys, else
\* results.resize and the root task of sync_wait
LookupOf(b, base) ==
    LET n == Len(b.keys) - base IN
    IF n = 0 THEN [b EXCEPT !.phase = "done"]
    ELSE [b EXCEPT !.results = Resize(@, n), !.base = base, !.phase = "fork",
                   !.ready = {Range(0, n)}]

batch_lookup(keys, results) ==
    /\ batch.op = "none"
    /\ batch' = LookupOf(BatchCall("lookup", keys, << >>, results), 0)
    /\ UNCHANGED <<gc, variant, ht, allocator, pool, last, present, inserted, removed, fresh,
                   nops, thr, freed>>

Threshold(op) == IF op = "fork_insert" THEN InsertThreshold ELSE LookupThreshold

\* a task of more than THRESHOLD keys: fork the first half, call the second
SplitTask(t) ==
    /\ batch.op # "none"
    /\ batch.phase = "fork"
    /\ batch.run[t] = NoRun
    /\ \E r \in batch.ready :
          /\ r.hi - r.lo > Threshold(batch.op)
          /\ LET mid == (r.hi - r.lo) \div 2 IN
             batch' = [batch EXCEPT !.ready = (@ \ {r}) \cup {Range(r.lo, r.lo + mid),
                                                              Range(r.lo + mid, r.hi)}]
    /\ UNCHANGED <<gc, variant, ht, allocator, pool, last, present, inserted, removed, fresh,
                   nops, thr, freed>>

\* a task of THRESHOLD keys or fewer starts its loop on thread t
TakeLeaf(t) ==
    /\ batch.op # "none"
    /\ batch.phase = "fork"
    /\ batch.run[t] = NoRun
    /\ \E r \in batch.ready :
          /\ r.hi - r.lo <= Threshold(batch.op)
          /\ batch' = [batch EXCEPT !.ready = @ \ {r},
                                    !.run[t] = [lo |-> r.lo, hi |-> r.hi, i |-> r.lo]]
    /\ UNCHANGED <<gc, variant, ht, allocator, pool, last, present, inserted, removed, fresh,
                   nops, thr, freed>>

\* the run of thread t after its loop has made one more iteration
Advance(run) == IF run.i + 1 = run.hi THEN NoRun ELSE [run EXCEPT !.i = @ + 1]

\* results[i] = hashtable_final_get(ht, keys[i])
LeafLookup(t) ==
    /\ batch.op \in {"lookup", "mixed"}
    /\ batch.phase = "fork"
    /\ batch.run[t] # NoRun
    /\ LET i == batch.run[t].i IN
       batch' = [batch EXCEPT !.results[i + 1] = lookup(batch.keys[batch.base + i + 1]),
                              !.run[t] = Advance(@)]
    /\ UNCHANGED <<gc, variant, ht, allocator, pool, last, present, inserted, removed, fresh,
                   nops, thr, freed>>

\* sync_wait returns: every task has ended
SyncWait ==
    /\ batch.op # "none"
    /\ batch.phase = "fork"
    /\ batch.ready = {}
    /\ \A t \in Threads : batch.run[t] = NoRun
    /\ batch' = [batch EXCEPT !.phase = "done"]
    /\ UNCHANGED <<gc, variant, ht, allocator, pool, last, present, inserted, removed, fresh,
                   nops, thr, freed>>

\* the serial batch_insert of the first stop keys: nothing for no keys, else
\* the loop of puts
InsertOf(b, stop) ==
    IF stop = 0 THEN [b EXCEPT !.phase = IF b.op = "mixed" THEN "insert" ELSE "done"]
    ELSE [b EXCEPT !.phase = "insert", !.i = 0, !.stop = stop]

batch_insert(keys, values) ==
    /\ batch.op = "none"
    /\ batch' = InsertOf(BatchCall("insert", keys, values, << >>), Len(keys))
    /\ UNCHANGED <<gc, variant, ht, allocator, pool, last, present, inserted, removed, fresh,
                   nops, thr, freed>>

\* one iteration of the loop: hashtable_final_put(ht_, keys[i], values[i]);
\* after the last one batch_insert returns
SerialPut ==
    /\ batch.op \in {"insert", "mixed"}
    /\ batch.phase = "insert"
    /\ batch.i < batch.stop
    /\ LET key == batch.keys[batch.i + 1]
           idx == BucketIdx(ht, HashedKey(variant, key))
           r == put(variant, ht.table[idx], allocator, pool, key,
                    batch.values[batch.i + 1], FALSE)
       IN /\ ht.table[idx][1].lock = LOCK_FREE
          /\ ht' = [ht EXCEPT !.table[idx] = r.chain, !.num_elements = @ + r.delta]
          /\ allocator' = r.allocator
          /\ pool' = r.pool
    /\ batch' = [batch EXCEPT !.i = @ + 1,
                              !.phase = IF batch.op = "insert" /\ batch.i + 1 = batch.stop
                                        THEN "done" ELSE @]
    /\ UNCHANGED <<gc, variant, last, present, inserted, removed, fresh, nops, thr, freed>>

\* static_cast<size_t>(keys.size() * insert_ratio) for the ratio q / 4, which
\* a double holds exactly, as is its product with a small size
InsertCount_All(n, q) == n

InsertCount(n, q) == (n * q) \div 4

Ratios == 0..4

\* batch_mixed: results.resize, then batch_insert of the first insert_count
\* keys
batch_mixed(keys, values, results, q) ==
    /\ batch.op = "none"
    /\ batch' = InsertOf([BatchCall("mixed", keys, values, Resize(results, Len(keys)))
                             EXCEPT !.ratio = q],
                         InsertCount(Len(keys), q))
    /\ UNCHANGED <<gc, variant, ht, allocator, pool, last, present, inserted, removed, fresh,
                   nops, thr, freed>>

\* batch_mixed after its batch_insert: batch_lookup of the remaining keys
MixedLookup ==
    /\ batch.op = "mixed"
    /\ batch.phase = "insert"
    /\ batch.i = batch.stop
    /\ batch' = LookupOf(batch, batch.stop)
    /\ UNCHANGED <<gc, variant, ht, allocator, pool, last, present, inserted, removed, fresh,
                   nops, thr, freed>>

\* a ParallelClhtStr after its first n inserts, and the threads of its pool
InitBatch ==
    /\ gc = NoGc
    /\ variant = "Final"
    /\ \E capacity \in Capacities, n \in 0..MaxFirst :
          LET m == IF n < Len(FirstKeys) THEN n ELSE Len(FirstKeys)
              w == AfterFirst(variant, capacity, m)
          IN /\ ht = w.ht
             /\ allocator = w.allocator
             /\ pool = w.pool
             /\ present = [k \in Keys |->
                             IF \E i \in 1..m : FirstKeys[i] = k THEN 1 ELSE UINTPTR_MAX]
             /\ inserted = {FirstKeys[i] : i \in 1..m}
    /\ removed = {}
    /\ fresh = TRUE
    /\ last = NoCall
    /\ nops = 0
    /\ thr = [t \in Threads |-> IdleThread]
    /\ batch = NoBatch
    /\ freed = << >>

LookupSizes == (0..SmallBatch) \cup (LookupThreshold..MaxBatch)

NextBatch ==
    \/ \E n \in LookupSizes, results \in StaleResults : batch_lookup(BatchKeys(n), results)
    \/ \E n \in 0..SmallBatch : batch_insert(BatchKeys(n), BatchValues(n))
    \/ \E n \in 0..SmallBatch, results \in StaleResults, q \in Ratios :
          batch_mixed(BatchKeys(n), BatchValues(n), results, q)
    \/ \E t \in Threads : SplitTask(t)
    \/ \E t \in Threads : TakeLeaf(t)
    \/ \E t \in Threads : LeafLookup(t)
    \/ SyncWait
    \/ SerialPut
    \/ MixedLookup

SpecBatch == InitBatch /\ [][NextBatch]_vars

\* a batch call has returned
Returned(op) == batch.op = op /\ batch.phase = "done"

\* C21: Parallel batch lookup equals serial lookup.  When batch_lookup(keys,
\* results) has returned, with no writer at work, results has exactly
\* keys.size() entries and results[i] is what lookup(keys[i]) returns
\* (UINTPTR_MAX for an absent key), however the tasks of the fork-join
\* recursion were split and taken by the threads.
C21_BatchLookupEqualsSerial ==
    Returned("lookup") =>
        /\ Len(batch.results) = Len(batch.keys)
        /\ \A j \in 1..Len(batch.keys) : batch.results[j] = lookup(batch.keys[j])

Distinct(keys) == \A i, j \in 1..Len(keys) : i # j => keys[i] # keys[j]

\* batch_mixed was called on an empty table with distinct keys
MixedOnEmpty ==
    /\ batch.op = "mixed"
    /\ batch.size0 = 0
    /\ batch.absent0 = Keys
    /\ Distinct(batch.keys)

\* C24: Mixed batch.  When batch_mixed(keys, values, results, r), called on
\* an empty table with distinct keys, has returned, exactly the first
\* floor(keys.size() * r) keys are in the table, each with its value: size()
\* is floor(keys.size() * r), none of the remaining keys is present, and the
\* remaining keys are the ones that were looked up (results holds
\* UINTPTR_MAX for each of them).
C24_MixedBatch ==
    MixedOnEmpty /\ batch.phase = "done" =>
        \E count \in 0..Len(batch.keys) :
           /\ count * 4 <= Len(batch.keys) * batch.ratio
           /\ Len(batch.keys) * batch.ratio < (count + 1) * 4
           /\ ht.num_elements = count
           /\ \A j \in 1..count : lookup(batch.keys[j]) = batch.values[j]
           /\ \A j \in (count + 1)..Len(batch.keys) : lookup(batch.keys[j]) = UINTPTR_MAX
           /\ count < Len(batch.keys) =>
                 batch.results = [j \in 1..(Len(batch.keys) - count) |-> UINTPTR_MAX]

C24_Witness ==
    /\ MixedOnEmpty
    /\ batch.phase = "done"
    /\ 0 < ht.num_elements
    /\ ht.num_elements < Len(batch.keys)
    /\ Len(batch.results) = Len(batch.keys) - ht.num_elements

(***************************************************************************)
(* The ParallelClhtStr whose batch_insert is fork-join too: the task       *)
(* insert_str splits like lookup_str, with its own THRESHOLD, and a task   *)
(* of THRESHOLD keys or fewer calls hashtable_final_put for each of its    *)
(* keys, while the other threads of the pool do the same for theirs.  The  *)
(* value put returns is dropped.                                           *)
(***************************************************************************)
MaxFork == 33   \* longest keys vector of a fork-join batch_insert

fork_batch_insert(keys, values) ==
    /\ batch.op = "none"
    /\ batch' = LET b == BatchCall("fork_insert", keys, values, << >>) IN
                IF keys = << >> THEN b
                ELSE [b EXCEPT !.phase = "fork", !.ready = {Range(0, Len(keys))}]
    /\ UNCHANGED <<gc, variant, ht, allocator, pool, last, present, inserted, removed, fresh,
                   nops, thr, freed>>

\* thread t enters hashtable_final_put(ht, keys[i], values[i])
LeafPut(t) ==
    /\ batch.op = "fork_insert"
    /\ batch.phase = "fork"
    /\ batch.run[t] # NoRun
    /\ LET i == batch.run[t].i IN Begin(t, "insert", batch.keys[i + 1], batch.values[i + 1])

\* the put has returned, true or false: the loop goes on
LeafPutReturn(t) ==
    /\ batch.op = "fork_insert"
    /\ batch.phase = "fork"
    /\ batch.run[t] # NoRun
    /\ thr[t].pc = "done"
    /\ thr' = [thr EXCEPT ![t] = IdleThread]
    /\ batch' = [batch EXCEPT !.run[t] = Advance(@)]
    /\ UNCHANGED <<gc, variant, ht, allocator, pool, last, present, inserted, removed, fresh,
                   nops, freed>>

\* two keys in turn, the first with value 1 and the second with value 2
ForkKeys(n) == [j \in 1..n |-> IF j % 2 = 1 THEN KeyA ELSE KeyB]
ForkValues(n) == [j \in 1..n |-> IF j % 2 = 1 THEN 1 ELSE 2]

\* a ParallelClhtStr as created, and the threads of its pool
InitFork ==
    /\ gc = NoGc
    /\ variant = "Final"
    /\ \E capacity \in Capacities :
          \E w \in {AfterFirst(variant, capacity, 0)} :
             /\ ht = w.ht
             /\ allocator = w.allocator
             /\ pool = w.pool
    /\ present = [k \in Keys |-> UINTPTR_MAX]
    /\ inserted = {}
    /\ removed = {}
    /\ fresh = TRUE
    /\ last = NoCall
    /\ nops = 0
    /\ thr = [t \in Threads |-> IdleThread]
    /\ batch = NoBatch
    /\ freed = << >>

NextFork ==
    \/ \E n \in 0..MaxFork : fork_batch_insert(ForkKeys(n), ForkValues(n))
    \/ \E t \in Threads : SplitTask(t)
    \/ \E t \in Threads : TakeLeaf(t)
    \/ \E t \in Threads : LeafPut(t)
    \/ \E t \in Threads : Acquire(t)
    \/ \E t \in Threads : GiveUp(t)
    \/ \E t \in Threads : WriteStep(t)
    \/ \E t \in Threads : LeafPutReturn(t)
    \/ SyncWait

SpecFork == InitFork /\ [][NextFork]_vars

\* the keys of a batch, and the values the batch supplies for a key
BatchKeySet == {batch.keys[j] : j \in 1..Len(batch.keys)}
SuppliedFor(k) == {batch.values[j] : j \in {x \in 1..Len(batch.keys) : batch.keys[x] = k}}

\* C22: Batch insert loses nothing.  When batch_insert(keys, values) has
\* returned, every distinct key of the batch is present with one of the
\* values supplied for it, and size() has grown by exactly the number of
\* distinct keys of the batch that were absent before; for the serial
\* batch_insert and for the fork-join one, whose threads insert concurrently.
C22_BatchInsertLosesNothing ==
    Returned("insert") \/ Returned("fork_insert") =>
        /\ \A k \in BatchKeySet : lookup(k) \in SuppliedFor(k)
        /\ ht.num_elements = batch.size0 + Cardinality(BatchKeySet \cap batch.absent0)

\* two threads have inserted two distinct keys, absent before, and both
\* calls have returned true
BothInserted(t, u) ==
    /\ t # u
    /\ thr[t].pc = "done" /\ thr[t].op = "insert" /\ thr[t].ok
    /\ thr[u].pc = "done" /\ thr[u].op = "insert" /\ thr[u].ok
    /\ thr[t].key # thr[u].key
    /\ present[thr[t].key] = UINTPTR_MAX
    /\ present[thr[u].key] = UINTPTR_MAX

\* C23: Thread safety of all CLHT-Str tables.  When two threads have
\* concurrently inserted two distinct keys and both calls have returned true,
\* both keys are retrievable with their own values and size() has grown by 2
\* (the keys were absent before), under every interleaving of the two calls.
C23_ThreadSafety ==
    \A t, u \in Threads :
       BothInserted(t, u) =>
          /\ lookup(thr[t].key) = thr[t].val
          /\ lookup(thr[u].key) = thr[u].val
          /\ ht.num_elements = Cardinality(inserted) + 2

\* the non-empty slots of the chain of a key whose hash, length and bytes
\* are the key's
Holding(key) ==
    LET c == ChainOf(variant, ht, key) IN
    {n \in Matches(variant, c, allocator, pool, key) : Occupied(variant, SlotAt(c, n))}

\* C35: Key uniqueness within a chain.  In every state that one thread
\* reaches by inserts and removes, in each of the five chain variants, no key
\* occupies more than one slot of its bucket chain.
C35_KeyUniqueness ==
    \A k \in Keys : Cardinality(Holding(k)) <= 1

C36_PublishedInitialised ==
    /\ \A idx \in DOMAIN ht.table : \A b \in 1..Len(ht.table[idx]) :
          ht.table[idx][b].zeroed
    /\ \A t \in Threads :
          thr[t].pc = "read" => ChainOfThread(t)[thr[t].b].zeroed

\* the values that inserts have supplied for key k: the value it was stored
\* with before the threads started and the value of every insert(k, v) call
SuppliedTo(k) ==
    (IF k \in inserted THEN {present[k]} ELSE {})
       \cup {thr[w].val : w \in {u \in Threads : thr[u].op = "insert" /\ thr[u].key = k}}

\* C37: Lookup never returns a foreign value.  Whatever the interleaving of a
\* lookup(k) with an insert or a remove on its chain, the lookup returns
\* UINTPTR_MAX or a value that an insert(k, v) supplied for k: never the
\* value of another key and never the 0 of a slot that is being cleared or
\* filled.
C37_NoForeignValue ==
    \A r \in Threads :
        (thr[r].op = "lookup" /\ thr[r].pc = "done")
        => thr[r].ret \in {UINTPTR_MAX} \cup SuppliedTo(thr[r].key)

\* thread t is about to copy its key to the region alloc gave it
Copying(t) ==
    /\ Holds(t)
    /\ thr[t].plan # << >>
    /\ Head(thr[t].plan).k = "pcopy"

\* C38: Pool growth is safe under concurrency.  When threads insert into one
\* ClhtStrPooled concurrently and an allocation expands the pool, every
\* thread's copy of its key goes to the current buffer: after the copy the
\* pool holds the key's bytes at the offset alloc returned, so that no copy
\* is made to the buffer that expand has freed.
C38_PoolGrowthSafe ==
    [][variant = "Pooled" =>
          \A t \in Threads :
             (Copying(t) /\ thr'[t] # thr[t])
             => PoolBytes(pool', thr[t].stored) = thr[t].key]_vars

(***************************************************************************)
(* ThreadSafeKeyPool over its whole range of sizes.  Every size that alloc *)
(* adds to offset_ is a multiple of 8, so positions in the pool are        *)
(* counted in words of 8 bytes; a byte count is a number of words w and a  *)
(* remainder r of 0 to 7 bytes.  data lists the strings that are followed: *)
(* the first ones of the pool and those that alloc adds.                   *)
(***************************************************************************)
\* the number of 8-byte words in 2^32 bytes
WordsIn4GiB == 536870912

\* DEFAULT_POOL_SIZE, 16 MiB, in words
DefaultPoolWords == 2097152

MaxAllocs == 3

ByteCount(w, r) == [w |-> w, r |-> r]

\* UINT32_MAX = 2^32 - 1 as a byte count
Uint32Max == ByteCount(WordsIn4GiB - 1, 7)

\* static_cast<uint32_t> of a byte count
ToUint32(x) == ByteCount(x.w % WordsIn4GiB, x.r)

\* alloc_size = (len + 1 + 7) & ~7, in words
PoolAllocWords(len) == (len + 8) \div 8

OffsetKeys == {KeyEmpty, KeyA, KeyB, K16}

\* alloc(str, len): the pool afterwards, the position the key was stored at
\* and the uint32_t that is returned; oom says whether aligned_alloc fails
\* when the pool has to grow
WidePool_alloc(p, str, oom) ==
    LET alloc_size == PoolAllocWords(Len(str))
        grow == p.offset_ + alloc_size > p.capacity_
        q == IF grow THEN ThreadSafeKeyPool_expand(p, alloc_size) ELSE p
    IN IF grow /\ oom
       THEN [pool |-> p, stored |-> FALSE, position |-> 0, offset |-> Uint32Max]
       ELSE [pool |-> [q EXCEPT !.offset_ = q.offset_ + alloc_size,
                                !.data = Append(q.data, [off |-> q.offset_, str |-> str])],
             stored |-> TRUE,
             position |-> q.offset_,
             offset |-> ToUint32(ByteCount(q.offset_, 0))]

\* get(offset): nullptr when offset >= offset_, else data_ + offset
WidePool_get(p, offset) ==
    [null |-> offset.w >= p.offset_, at |-> offset]

\* the strings of the pool that begin at the byte get(offset) points to
StringsAt(p, ptr) ==
    {p.data[n].str : n \in {i \in 1..Len(p.data) :
                               ~ptr.null /\ ptr.at.r = 0 /\ p.data[i].off = ptr.at.w}}

\* one call of alloc
OffsetAlloc ==
    /\ nops < MaxAllocs
    /\ \E key \in OffsetKeys, oom \in BOOLEAN :
          LET r == WidePool_alloc(pool, key, oom) IN
          /\ pool' = r.pool
          /\ last' = [op |-> "alloc", key |-> key, stored |-> r.stored,
                      position |-> r.position, offset |-> r.offset]
    /\ nops' = nops + 1
    /\ UNCHANGED <<gc, variant, batch, freed, ht, allocator, present, inserted, removed, fresh,
                   thr>>

\* a pool as constructed, or a pool in use whose offset_ is near 2^32 bytes
\* and whose first two strings are "a" and "b"
InitOffset ==
    /\ gc = NoGc
    /\ variant = "Pooled"
    /\ \/ pool = [capacity_ |-> DefaultPoolWords, offset_ |-> 0, data |-> << >>]
       \/ \E used \in (WordsIn4GiB - 4)..(WordsIn4GiB + 1) :
             pool = [capacity_ |-> IF used <= WordsIn4GiB THEN WordsIn4GiB
                                   ELSE 2 * WordsIn4GiB,
                     offset_ |-> used,
                     data |-> << [off |-> 0, str |-> KeyA], [off |-> 1, str |-> KeyB] >>]
    /\ LET w == AfterKeys(variant, 1, << >>)
       IN /\ ht = w.ht
          /\ allocator = w.allocator
    /\ last = [op |-> "none", key |-> KeyEmpty, stored |-> FALSE, position |-> 0,
               offset |-> Uint32Max]
    /\ present = [k \in Keys |-> UINTPTR_MAX]
    /\ inserted = {}
    /\ removed = {}
    /\ fresh = TRUE
    /\ nops = 0
    /\ thr = Idle
    /\ batch = NoBatch
    /\ freed = << >>

NextOffset == OffsetAlloc

SpecOffset == InitOffset /\ [][NextOffset]_vars

\* C40: Pool offsets are faithful.  Every offset that alloc returns on
\* success is the byte position at which the key was stored, with nothing
\* lost in the conversion to 32 bits, and is not UINT32_MAX, whatever the
\* amount of pool usage; and get of that offset is a non-null pointer to the
\* bytes of that key and of no other string.
C40_OffsetsFaithful ==
    (last.op = "alloc" /\ last.stored) =>
        /\ last.offset = ByteCount(last.position, 0)
        /\ last.offset # Uint32Max
        /\ ~WidePool_get(pool, last.offset).null
        /\ StringsAt(pool, WidePool_get(pool, last.offset)) = {last.key}

(***************************************************************************)
(* ParallelClhtInt: the global instance count and the ownership of the GC  *)
(* of clht.  An instance is "live" from the end of its constructor to the  *)
(* start of its destructor and "dying" between the fetch_sub of its        *)
(* destructor and the call of clht_gc_destroy or free that follows.        *)
(***************************************************************************)
MaxInstances == 3
MaxConstructions == 4

Instances == 1..MaxInstances

NoInstance == [state |-> "none", owns_gc_ |-> FALSE, new_count |-> 0]

Live == {i \in Instances : gc.inst[i].state = "live"}

\* ParallelClhtInt(capacity, num_threads): fetch_add on the instance count;
\* the instance that finds the count 0 initialises the GC and owns it
Construct(i) ==
    /\ gc.inst[i].state = "none"
    /\ gc.made < MaxConstructions
    /\ LET prev_count == gc.count IN
       gc' = [gc EXCEPT !.count = prev_count + 1,
                        !.made = @ + 1,
                        !.inst[i] = [state |-> "live", owns_gc_ |-> prev_count = 0,
                                     new_count |-> 0]]
    /\ UNCHANGED <<variant, ht, allocator, pool, last, present, inserted, removed, fresh,
                   nops, thr, batch, freed>>

\* ~ParallelClhtInt(), first part: new_count = fetch_sub(1) - 1
DestructCount(i) ==
    /\ gc.inst[i].state = "live"
    /\ LET new_count == gc.count - 1 IN
       gc' = [gc EXCEPT !.count = new_count,
                        !.zeros = @ + (IF new_count = 0 THEN 1 ELSE 0),
                        !.inst[i].state = "dying",
                        !.inst[i].new_count = new_count]
    /\ UNCHANGED <<variant, ht, allocator, pool, last, present, inserted, removed, fresh,
                   nops, thr, batch, freed>>

\* ~ParallelClhtInt(), second part: clht_gc_destroy(ht_) when the instance
\* owns the GC and brought the count to 0, free(ht_) otherwise
DestructFree(i) ==
    /\ gc.inst[i].state = "dying"
    /\ gc' = [gc EXCEPT
                !.calls = IF gc.inst[i].owns_gc_ /\ gc.inst[i].new_count = 0
                          THEN Append(@, [by |-> i, new_count |-> gc.inst[i].new_count,
                                          alive |-> Live])
                          ELSE @,
                !.frees = IF gc.inst[i].owns_gc_ /\ gc.inst[i].new_count = 0
                          THEN @ ELSE @ + 1,
                !.inst[i] = NoInstance]
    /\ UNCHANGED <<variant, ht, allocator, pool, last, present, inserted, removed, fresh,
                   nops, thr, batch, freed>>

\* no instance has been constructed
InitGc ==
    /\ gc = [count |-> 0, made |-> 0, zeros |-> 0, frees |-> 0, calls |-> << >>,
             inst |-> [i \in Instances |-> NoInstance]]
    /\ variant = "Final"
    /\ LET w == AfterKeys(variant, 1, << >>)
       IN /\ ht = w.ht
          /\ allocator = w.allocator
          /\ pool = w.pool
    /\ last = NoCall
    /\ present = [k \in Keys |-> UINTPTR_MAX]
    /\ inserted = {}
    /\ removed = {}
    /\ fresh = TRUE
    /\ nops = 0
    /\ thr = Idle
    /\ batch = NoBatch
    /\ freed = << >>

NextGc ==
    \E i \in Instances : Construct(i) \/ DestructCount(i) \/ DestructFree(i)

SpecGc == InitGc /\ [][NextGc]_vars

\* C31: GC ownership by reference count.  Across every sequence and
\* interleaving of constructions and destructions, clht_gc_destroy is called
\* only by an instance that brought the instance count to zero, never while
\* another instance is live, and, once no destructor is running, exactly as
\* many times as the count has returned to zero.
C31_GcOwnership ==
    /\ \A n \in 1..Len(gc.calls) :
          /\ gc.calls[n].new_count = 0
          /\ gc.calls[n].alive = {}
    /\ (\A i \in Instances : gc.inst[i].state # "dying")
          => Len(gc.calls) = gc.zeros

(***************************************************************************)
(* ClhtStrF14V2: open addressing over contiguous arrays.  A call probes up *)
(* to 8 windows of 6 consecutive entries; the window of probe p starts at  *)
(* probe_index(base_group, p).  Arrays are indexed from 0 as in the code.  *)
(* A call that indexes an array outside its bounds has undefined           *)
(* behaviour: it is recorded with the indices it used, what it returns is  *)
(* left open, and no further call on that table is followed.               *)
(***************************************************************************)
F14V2_ENTRIES_PER_GROUP == 6
F14V2_EMPTY_TAG == 0
F14V2_PROBES == 8

\* seven keys whose hash & 15 is below 6, in the order of the first inserts
F14V2First == <<KeyA, KeyB, <<108>>, <<109>>, <<110>>, <<116>>, <<117>>>>

F14V2Keys == {F14V2First[n] : n \in 1..Len(F14V2First)} \cup {KeyC, KeyD}

F14V2Capacities == {0, 6, 12}

F14V2Hash == [k \in F14V2Keys |-> hash_str_crc32(k)]

\* (uint8_t)((hash >> 57) | 0x80)
compute_tag(hash) == 128 + BitsToInt({i - 57 : i \in {j \in hash : j >= 57 /\ j <= 63}})

\* capacity_ = 1; while (capacity_ < min_capacity) capacity_ <<= 1
RECURSIVE ShiftUpTo(_, _)
ShiftUpTo(capacity_, min_capacity) ==
    IF capacity_ < min_capacity THEN ShiftUpTo(capacity_ * 2, min_capacity) ELSE capacity_

\* the constructor
ClhtStrF14V2(capacity) ==
    LET min_capacity == ((capacity + F14V2_ENTRIES_PER_GROUP - 1)
                            \div F14V2_ENTRIES_PER_GROUP) * F14V2_ENTRIES_PER_GROUP
        capacity_ == ShiftUpTo(1, min_capacity)
        num_groups_ == capacity_ \div F14V2_ENTRIES_PER_GROUP
    IN [capacity_ |-> capacity_,
        mask_ |-> capacity_ - 1,
        num_groups_ |-> num_groups_,
        tags_ |-> [i \in 0..(capacity_ - 1) |-> F14V2_EMPTY_TAG],
        key_hashes_ |-> [i \in 0..(capacity_ - 1) |-> {}],
        values_ |-> [i \in 0..(capacity_ - 1) |-> 0],
        locks_ |-> [g \in 0..(num_groups_ - 1) |-> 0],
        outbound_overflow_counts_ |-> [g \in 0..(num_groups_ - 1) |-> 0],
        key_ptrs_ |-> [i \in 0..(capacity_ - 1) |-> NULL],
        key_lengths_ |-> [i \in 0..(capacity_ - 1) |-> 0],
        num_elements |-> 0]

\* (base + probe * probe * ENTRIES_PER_GROUP) & mask_
probe_index(h, base, probe) ==
    (base + probe * probe * F14V2_ENTRIES_PER_GROUP) % h.capacity_

\* base_idx / ENTRIES_PER_GROUP * ENTRIES_PER_GROUP, base_idx = hash & mask_
BaseGroup(h, key) ==
    (HashAndMask(F14V2Hash[key], h.mask_) \div F14V2_ENTRIES_PER_GROUP)
        * F14V2_ENTRIES_PER_GROUP

\* the entries that a probe starting at idx looks at
Window(idx) == idx..(idx + F14V2_ENTRIES_PER_GROUP - 1)

\* the entries of the windows of probes 0..probe
Windows(h, base, probe) ==
    UNION {Window(probe_index(h, base, p)) : p \in 0..probe}

InArrays(h, idx) == idx + F14V2_ENTRIES_PER_GROUP - 1 < h.capacity_

\* the entries of the window at idx that pass the tag filter and hold key
MatchIn(h, a, idx, key) ==
    {i \in Window(idx) :
        /\ h.tags_[i] = compute_tag(F14V2Hash[key])
        /\ h.key_hashes_[i] = F14V2Hash[key]
        /\ h.key_lengths_[i] = Len(key)
        /\ strcmp_simd(key, PtrBytes(a, h.key_ptrs_[i]), Len(key)) = 0}

EmptyIn(h, idx) == {i \in Window(idx) : h.tags_[i] = F14V2_EMPTY_TAG}

\* what lookup does at one probe: it indexes outside an array, returns the
\* value, stops with the key not found, or goes on to the next probe
LookupStop(h, a, key, probe) ==
    LET idx == probe_index(h, BaseGroup(h, key), probe)
        group == idx \div F14V2_ENTRIES_PER_GROUP
    IN IF ~InArrays(h, idx) THEN "outside"
       ELSE IF MatchIn(h, a, idx, key) # {} THEN "hit"
       ELSE IF probe > 0 /\ group >= h.num_groups_ THEN "outside_group"
       ELSE IF probe > 0 /\ h.outbound_overflow_counts_[group] = 0 THEN "miss"
       ELSE IF probe = 0 /\ EmptyIn(h, idx) # {} THEN "miss"
       ELSE "go"

\* lookup(key): ret, the entries (slots) and the per-group entries (groups)
\* it indexed, and the number of windows it probed
F14V2_lookup(h, a, key) ==
    LET base == BaseGroup(h, key)
        stops == {p \in 0..(F14V2_PROBES - 1) : LookupStop(h, a, key, p) # "go"}
        at == IF stops = {} THEN F14V2_PROBES - 1 ELSE First(stops)
        kind == IF stops = {} THEN "miss" ELSE LookupStop(h, a, key, at)
        idx == probe_index(h, base, at)
        counted == IF kind \in {"hit", "outside"} THEN 1..(at - 1) ELSE 1..at
    IN [ret |-> IF kind = "hit" THEN h.values_[First(MatchIn(h, a, idx, key))]
                ELSE UINTPTR_MAX,
        outside |-> kind \in {"outside", "outside_group"},
        slots |-> Windows(h, base, at),
        groups |-> {probe_index(h, base, p) \div F14V2_ENTRIES_PER_GROUP : p \in counted},
        probed |-> at + 1]

\* the result of a call that indexed outside an array
Outside(h, a, slots, groups) ==
    [ht |-> h, allocator |-> a, ret |-> FALSE, outside |-> TRUE, slots |-> slots,
     groups |-> groups]

\* the first probe of a pass over all 8 windows that finds the key, and the
\* first that reaches outside the arrays
FirstHit(h, a, key) ==
    LET hits == {p \in 0..(F14V2_PROBES - 1) :
                    /\ InArrays(h, probe_index(h, BaseGroup(h, key), p))
                    /\ MatchIn(h, a, probe_index(h, BaseGroup(h, key), p), key) # {}}
    IN IF hits = {} THEN F14V2_PROBES ELSE First(hits)

FirstOut(h, key) ==
    LET outs == {p \in 0..(F14V2_PROBES - 1) :
                    ~InArrays(h, probe_index(h, BaseGroup(h, key), p))}
    IN IF outs = {} THEN F14V2_PROBES ELSE First(outs)

\* insert(key, value).  The lock of the primary group is taken first and
\* released before every return.
F14V2_insert(h, a, key, value) ==
    LET base == BaseGroup(h, key)
        primary_group == base \div F14V2_ENTRIES_PER_GROUP
        hit == FirstHit(h, a, key)
        out == FirstOut(h, key)
        rooms == {p \in 0..(F14V2_PROBES - 1) : EmptyIn(h, probe_index(h, base, p)) # {}}
    IN IF primary_group >= h.num_groups_ THEN Outside(h, a, {}, {primary_group})
       ELSE IF hit < out
       THEN LET entry_idx == First(MatchIn(h, a, probe_index(h, base, hit), key))
            IN [ht |-> [h EXCEPT !.values_[entry_idx] = value],
                allocator |-> a, ret |-> TRUE, outside |-> FALSE,
                slots |-> Windows(h, base, hit), groups |-> {primary_group}]
       ELSE IF out < F14V2_PROBES
       THEN Outside(h, a, Windows(h, base, out), {primary_group})
       ELSE IF rooms = {}
       THEN [ht |-> h, allocator |-> a, ret |-> FALSE, outside |-> FALSE,
             slots |-> Windows(h, base, F14V2_PROBES - 1), groups |-> {primary_group}]
       ELSE LET probe == First(rooms)
                entry_idx == First(EmptyIn(h, probe_index(h, base, probe)))
                st == StringAllocator_alloc(a, key)
            IN [ht |-> [h EXCEPT
                          !.tags_[entry_idx] = compute_tag(F14V2Hash[key]),
                          !.key_hashes_[entry_idx] = F14V2Hash[key],
                          !.values_[entry_idx] = value,
                          !.key_ptrs_[entry_idx] = st.ptr,
                          !.key_lengths_[entry_idx] = Len(key) % 65536,
                          !.outbound_overflow_counts_[primary_group] =
                              IF probe > 0 /\ @ < 255 THEN @ + 1 ELSE @,
                          !.num_elements = @ + 1],
                allocator |-> st.allocator, ret |-> TRUE, outside |-> FALSE,
                slots |-> Windows(h, base, F14V2_PROBES - 1),
                groups |-> {primary_group}]

\* remove(key)
F14V2_remove(h, a, key) ==
    LET base == BaseGroup(h, key)
        primary_group == base \div F14V2_ENTRIES_PER_GROUP
        hit == FirstHit(h, a, key)
        out == FirstOut(h, key)
    IN IF primary_group >= h.num_groups_ THEN Outside(h, a, {}, {primary_group})
       ELSE IF hit < out
       THEN LET entry_idx == First(MatchIn(h, a, probe_index(h, base, hit), key))
            IN [ht |-> [h EXCEPT
                          !.tags_[entry_idx] = F14V2_EMPTY_TAG,
                          !.key_hashes_[entry_idx] = {},
                          !.values_[entry_idx] = 0,
                          !.key_ptrs_[entry_idx] = NULL,
                          !.key_lengths_[entry_idx] = 0,
                          !.outbound_overflow_counts_[primary_group] =
                              IF hit > 0 /\ @ > 0 THEN @ - 1 ELSE @,
                          !.num_elements = @ - 1],
                allocator |-> a, ret |-> TRUE, outside |-> FALSE,
                slots |-> Windows(h, base, hit), groups |-> {primary_group}]
       ELSE IF out < F14V2_PROBES
       THEN Outside(h, a, Windows(h, base, out), {primary_group})
       ELSE [ht |-> h, allocator |-> a, ret |-> FALSE, outside |-> FALSE,
             slots |-> Windows(h, base, F14V2_PROBES - 1), groups |-> {primary_group}]

\* the call the model made last, with the array indices it used
F14V2Call(op, key, val, ret, r) ==
    [op |-> op, key |-> key, val |-> val, ret |-> ret, outside |-> r.outside,
     slots |-> r.slots, groups |-> r.groups]

F14V2Insert(key, val) ==
    /\ nops < MaxOps
    /\ ~last.outside
    /\ LET r == F14V2_insert(ht, allocator, key, val) IN
       \E ret \in IF r.outside THEN BOOLEAN ELSE {r.ret} :
          /\ ht' = r.ht
          /\ allocator' = r.allocator
          /\ last' = F14V2Call("insert", key, val, ret, r)
          /\ present' = IF ~r.outside /\ ret THEN [present EXCEPT ![key] = val]
                        ELSE present
    /\ nops' = nops + 1
    /\ UNCHANGED <<gc, variant, batch, freed, pool, inserted, removed, fresh, thr>>

F14V2Remove(key) ==
    /\ nops < MaxOps
    /\ ~last.outside
    /\ LET r == F14V2_remove(ht, allocator, key) IN
       \E ret \in IF r.outside THEN BOOLEAN ELSE {r.ret} :
          /\ ht' = r.ht
          /\ last' = F14V2Call("remove", key, 0, ret, r)
          /\ present' = IF ~r.outside /\ ret THEN [present EXCEPT ![key] = UINTPTR_MAX]
                        ELSE present
    /\ nops' = nops + 1
    /\ UNCHANGED <<gc, variant, batch, freed, allocator, pool, inserted, removed, fresh,
                   thr>>

F14V2Lookup(key) ==
    /\ nops < MaxOps
    /\ ~last.outside
    /\ LET r == F14V2_lookup(ht, allocator, key) IN
       \E ret \in IF r.outside THEN {UINTPTR_MAX, 0} \cup Values ELSE {r.ret} :
          last' = [F14V2Call("lookup", key, 0, ret, r) EXCEPT !.probed = r.probed]
    /\ nops' = nops + 1
    /\ UNCHANGED <<gc, variant, batch, freed, ht, allocator, pool, present, inserted,
                   removed, fresh, thr>>

\* the table after insert(F14V2First[1], 1) .. insert(F14V2First[n], 1)
F14V2Step(w, key) ==
    CHOOSE x \in {[ht |-> r.ht, allocator |-> r.allocator] :
                     r \in {F14V2_insert(w.ht, w.allocator, key, 1)}} : TRUE

RECURSIVE AfterF14V2First(_, _)
AfterF14V2First(capacity, n) ==
    IF n = 0 THEN [ht |-> ClhtStrF14V2(capacity), allocator |-> << >>]
    ELSE CHOOSE x \in {F14V2Step(w, F14V2First[n]) :
                          w \in {AfterF14V2First(capacity, n - 1)}} : TRUE

\* a table as constructed; for the capacity at which the windows of the
\* first keys lie inside the arrays, also the table after the first n inserts
InitF14V2 ==
    /\ variant = "F14V2"
    /\ \E capacity \in F14V2Capacities :
       \E n \in IF capacity = 12 THEN 0..Len(F14V2First) ELSE {0} :
       \E w \in {AfterF14V2First(capacity, n)} :
          /\ ht = w.ht
          /\ allocator = w.allocator
          /\ present = [k \in F14V2Keys |->
                          IF \E i \in 1..n : F14V2First[i] = k THEN 1 ELSE UINTPTR_MAX]
    /\ pool = ThreadSafeKeyPool(InitialPoolSize)
    /\ last = [op |-> "none", key |-> KeyEmpty, val |-> 0, ret |-> 0, outside |-> FALSE,
               slots |-> {}, groups |-> {}]
    /\ inserted = {}
    /\ removed = {}
    /\ fresh = TRUE
    /\ nops = 0
    /\ thr = Idle
    /\ batch = NoBatch
    /\ freed = << >>
    /\ gc = NoGc

NextF14V2 ==
    \/ \E key \in F14V2Keys, val \in Values : F14V2Insert(key, val)
    \/ \E key \in F14V2Keys : F14V2Remove(key)
    \/ \E key \in F14V2Keys : F14V2Lookup(key)

SpecF14V2 == InitF14V2 /\ [][NextF14V2]_vars

\* C39: ClhtStrF14V2 index bounds.  Every entry index that a call uses on
\* tags_, key_hashes_, values_, key_ptrs_ and key_lengths_ is below
\* capacity_, and every group index that it uses on locks_ and
\* outbound_overflow_counts_ is below num_groups_.
C39_IndexBounds ==
    /\ \A i \in last.slots : i < ht.capacity_
    /\ \A g \in last.groups : g < ht.num_groups_

\* the entries of the table that hold key
F14V2Holding(key) ==
    {i \in 0..(ht.capacity_ - 1) :
        /\ ht.tags_[i] # F14V2_EMPTY_TAG
        /\ ht.key_hashes_[i] = F14V2Hash[key]
        /\ ht.key_lengths_[i] = Len(key)
        /\ strcmp_simd(key, PtrBytes(allocator, ht.key_ptrs_[i]), Len(key)) = 0}

\* C32: ClhtStrF14V2 lookup finds every present key.  With one thread, a
\* lookup of a key that was inserted and not removed since returns the
\* value it was last given, and a lookup that returns UINTPTR_MAX, stopped
\* early or not, leaves the key in no entry of the table, so in none of the
\* windows it did not probe.
C32_LookupFindsPresent ==
    (last.op = "lookup" /\ ~last.outside) =>
        /\ last.ret = present[last.key]
        /\ last.ret = UINTPTR_MAX => F14V2Holding(last.key) = {}

(***************************************************************************)
(* ClhtStrF14: an array of chunks of 6 entries, each the head of a chain   *)
(* of overflow chunks, and two key arrays (key_ptrs_, key_lengths_) with   *)
(* one entry per entry of the array of chunks.  A chain is a sequence of   *)
(* chunks, the chunk of the array first.  The key-array index of an entry  *)
(* is (chunk - chunks_) * 6 + slot; for an overflow chunk, which is not    *)
(* part of the array, the pointer difference is undefined and the index    *)
(* lies below or above the key arrays.  A call that uses such an index is  *)
(* recorded with it, what it returns is left open, and no further call on  *)
(* that table is followed.                                                 *)
(***************************************************************************)
F14_FINAL_ENTRIES == 6
F14_EMPTY_TAG == 0
F14_MAX_PROBES == 8

F14Capacities == {0, 6, 12}

F14Slots == 0..(F14_FINAL_ENTRIES - 1)

\* a chunk after memset
ZeroChunk ==
    [lock |-> 0, outbound_overflow_count |-> 0,
     tags |-> [s \in F14Slots |-> F14_EMPTY_TAG],
     values |-> [s \in F14Slots |-> 0],
     key_hashes |-> [s \in F14Slots |-> {}]]

\* the constructor
ClhtStrF14(capacity) ==
    LET min_chunks == (capacity + F14_FINAL_ENTRIES - 1) \div F14_FINAL_ENTRIES
        chunk_count_ == ShiftUpTo(1, min_chunks)
    IN [chunk_count_ |-> chunk_count_,
        mask_ |-> chunk_count_ - 1,
        chunks_ |-> [c \in 0..(chunk_count_ - 1) |-> <<ZeroChunk>>],
        key_ptrs_ |-> [g \in 0..(chunk_count_ * F14_FINAL_ENTRIES - 1) |-> NULL],
        key_lengths_ |-> [g \in 0..(chunk_count_ * F14_FINAL_ENTRIES - 1) |-> 0],
        num_elements |-> 0]

\* hash & mask_
F14ChunkIdx(h, key) == HashAndMask(F14V2Hash[key], h.mask_)

\* where an overflow chunk can lie relative to chunks_, in chunks
Unrelated(h) == {-1, h.chunk_count_}

\* (chunk - chunks_) * ENTRIES_PER_CHUNK + slot for slot s of chunk b of the
\* chain of chunk_idx; d is where the overflow chunk lies
global_slot(chunk_idx, b, s, d) ==
    (IF b = 1 THEN chunk_idx ELSE d) * F14_FINAL_ENTRIES + s

\* the slots of a chunk that pass the tag filter and the hash comparison
F14Candidates(chunk, key) ==
    {s \in F14Slots : /\ chunk.tags[s] = compute_tag(F14V2Hash[key])
                      /\ chunk.key_hashes[s] = F14V2Hash[key]}

\* the slots of the chunk of the array that hold key
F14Hits(h, a, key) ==
    {s \in F14Candidates(h.chunks_[F14ChunkIdx(h, key)][1], key) :
        LET g == global_slot(F14ChunkIdx(h, key), 1, s, 0) IN
        /\ h.key_lengths_[g] = Len(key)
        /\ strcmp_simd(key, PtrBytes(a, h.key_ptrs_[g]), Len(key)) = 0}

\* the key-array entries read in the chunk of the array
F14HeadReads(h, key) ==
    {global_slot(F14ChunkIdx(h, key), 1, s, 0) :
        s \in F14Candidates(h.chunks_[F14ChunkIdx(h, key)][1], key)}

\* the overflow chunks of chain c, among its first n chunks, in which a
\* candidate slot makes the call read the key arrays
F14OverflowReads(c, key, n) ==
    {b \in 2..n : b <= Len(c) /\ F14Candidates(c[b], key) # {}}

\* the result of a call that left the key arrays in chunk b of chain c
F14Outside(h, a, key, c, b, s, d) ==
    [ht |-> h, allocator |-> a, ret |-> FALSE, outside |-> TRUE,
     key_slots |-> F14HeadReads(h, key)
                      \cup {global_slot(F14ChunkIdx(h, key), b, s, d)}]

F14Done(h, a, key, ret, key_slots) ==
    [ht |-> h, allocator |-> a, ret |-> ret, outside |-> FALSE, key_slots |-> key_slots]

\* lookup(key); d is where the overflow chunks lie.  The walk goes on from a
\* chunk only when its outbound_overflow_count is not 0, and visits at most
\* max_probes chunks.
F14_lookup(h, a, key, d) ==
    LET chunk_idx == F14ChunkIdx(h, key)
        c == h.chunks_[chunk_idx]
        hits == F14Hits(h, a, key)
        visited == {b \in 1..Len(c) :
                       /\ b <= F14_MAX_PROBES
                       /\ \A x \in 1..(b - 1) :
                             /\ c[x].outbound_overflow_count # 0
                             /\ x > 1 => F14Candidates(c[x], key) = {}}
        reads == F14OverflowReads(c, key, Len(c)) \cap visited
    IN IF hits # {} THEN F14Done(h, a, key, c[1].values[First(hits)], F14HeadReads(h, key))
       ELSE IF reads # {}
       THEN F14Outside(h, a, key, c, First(reads),
                       First(F14Candidates(c[First(reads)], key)), d)
       ELSE F14Done(h, a, key, UINTPTR_MAX, F14HeadReads(h, key))

\* the chunks of chain c that have no empty slot, among those before the
\* first chunk that has one
F14FullBefore(c) ==
    {b \in 1..Len(c) : \A x \in 1..b : \A s \in F14Slots : c[x].tags[s] # F14_EMPTY_TAG}

\* insert(key, value).  The lock of the chunk of the array is taken first
\* and released before every return.
F14_insert(h, a, key, value, d) ==
    LET chunk_idx == F14ChunkIdx(h, key)
        c == h.chunks_[chunk_idx]
        tag == compute_tag(F14V2Hash[key])
        hits == F14Hits(h, a, key)
        reads == F14OverflowReads(c, key, Len(c))
        full == F14FullBefore(c)
        counted == [b \in 1..Len(c) |->
                      IF b \in full /\ c[b].outbound_overflow_count < 255
                      THEN [c[b] EXCEPT !.outbound_overflow_count = @ + 1]
                      ELSE c[b]]
        b == Cardinality(full) + 1
        st == StringAllocator_alloc(a, key)
    IN IF hits # {}
       THEN F14Done([h EXCEPT !.chunks_[chunk_idx][1].values[First(hits)] = value],
                    a, key, TRUE, F14HeadReads(h, key))
       ELSE IF reads # {}
       THEN F14Outside(h, a, key, c, First(reads),
                       First(F14Candidates(c[First(reads)], key)), d)
       ELSE IF b > Len(c)
       THEN \* every chunk is full: a new overflow chunk, whose entry 0 gets
            \* tag, hash and value; the key is not stored
            F14Done([h EXCEPT
                       !.chunks_[chunk_idx] =
                           Append(counted,
                                  [ZeroChunk EXCEPT !.tags[0] = tag,
                                                    !.key_hashes[0] = F14V2Hash[key],
                                                    !.values[0] = value]),
                       !.num_elements = @ + 1],
                    a, key, TRUE, F14HeadReads(h, key))
       ELSE LET s == First({x \in F14Slots : c[b].tags[x] = F14_EMPTY_TAG})
                g == global_slot(chunk_idx, b, s, d)
            IN IF b > 1 THEN F14Outside(h, a, key, c, b, s, d)
               ELSE F14Done([h EXCEPT
                               !.chunks_[chunk_idx] =
                                   [counted EXCEPT ![b].tags[s] = tag,
                                                   ![b].key_hashes[s] = F14V2Hash[key],
                                                   ![b].values[s] = value],
                               !.key_ptrs_[g] = st.ptr,
                               !.key_lengths_[g] = Len(key) % 65536,
                               !.num_elements = @ + 1],
                            st.allocator, key, TRUE, F14HeadReads(h, key) \cup {g})

\* remove(key)
F14_remove(h, a, key, d) ==
    LET chunk_idx == F14ChunkIdx(h, key)
        c == h.chunks_[chunk_idx]
        hits == F14Hits(h, a, key)
        reads == F14OverflowReads(c, key, Len(c))
    IN IF hits # {}
       THEN LET s == First(hits)
                g == global_slot(chunk_idx, 1, s, d)
            IN F14Done([h EXCEPT
                          !.chunks_[chunk_idx][1].tags[s] = F14_EMPTY_TAG,
                          !.chunks_[chunk_idx][1].key_hashes[s] = {},
                          !.chunks_[chunk_idx][1].values[s] = 0,
                          !.chunks_[chunk_idx][1].outbound_overflow_count =
                              IF @ > 0 THEN @ - 1 ELSE @,
                          !.key_ptrs_[g] = NULL,
                          !.key_lengths_[g] = 0,
                          !.num_elements = @ - 1],
                       a, key, TRUE, F14HeadReads(h, key))
       ELSE IF reads # {}
       THEN F14Outside(h, a, key, c, First(reads),
                       First(F14Candidates(c[First(reads)], key)), d)
       ELSE F14Done(h, a, key, FALSE, F14HeadReads(h, key))

\* the call the model made last, with the key-array indices it used, the
\* value the key had and the size before the call
F14Call(op, key, val, ret, r) ==
    [op |-> op, key |-> key, val |-> val, ret |-> ret, outside |-> r.outside,
     key_slots |-> r.key_slots, before |-> present[key], size0 |-> ht.num_elements]

F14Insert(key, val) ==
    /\ nops < MaxOps
    /\ ~last.outside
    /\ \E d \in Unrelated(ht) :
       LET r == F14_insert(ht, allocator, key, val, d) IN
       \E ret \in IF r.outside THEN BOOLEAN ELSE {r.ret} :
          /\ ht' = r.ht
          /\ allocator' = r.allocator
          /\ last' = F14Call("insert", key, val, ret, r)
          /\ present' = IF ~r.outside /\ ret THEN [present EXCEPT ![key] = val]
                        ELSE present
    /\ nops' = nops + 1
    /\ UNCHANGED <<gc, variant, batch, freed, pool, inserted, removed, fresh, thr>>

F14Remove(key) ==
    /\ nops < MaxOps
    /\ ~last.outside
    /\ \E d \in Unrelated(ht) :
       LET r == F14_remove(ht, allocator, key, d) IN
       \E ret \in IF r.outside THEN BOOLEAN ELSE {r.ret} :
          /\ ht' = r.ht
          /\ last' = F14Call("remove", key, 0, ret, r)
          /\ present' = IF ~r.outside /\ ret THEN [present EXCEPT ![key] = UINTPTR_MAX]
                        ELSE present
    /\ nops' = nops + 1
    /\ UNCHANGED <<gc, variant, batch, freed, allocator, pool, inserted, removed, fresh,
                   thr>>

F14Lookup(key) ==
    /\ nops < MaxOps
    /\ ~last.outside
    /\ \E d \in Unrelated(ht) :
       LET r == F14_lookup(ht, allocator, key, d) IN
       \E ret \in IF r.outside THEN {UINTPTR_MAX, 0} \cup Values ELSE {r.ret} :
          last' = F14Call("lookup", key, 0, ret, r)
    /\ nops' = nops + 1
    /\ UNCHANGED <<gc, variant, batch, freed, ht, allocator, pool, present, inserted,
                   removed, fresh, thr>>

\* the table after insert(F14V2First[1], 1) .. insert(F14V2First[n], 1)
F14Step(w, key) ==
    CHOOSE x \in {[ht |-> r.ht, allocator |-> r.allocator] :
                     r \in {F14_insert(w.ht, w.allocator, key, 1, 0)}} : TRUE

RECURSIVE AfterF14First(_, _)
AfterF14First(capacity, n) ==
    IF n = 0 THEN [ht |-> ClhtStrF14(capacity), allocator |-> << >>]
    ELSE CHOOSE x \in {F14Step(w, F14V2First[n]) :
                          w \in {AfterF14First(capacity, n - 1)}} : TRUE

\* a table as constructed, or after the first n inserts
InitF14 ==
    /\ variant = "F14"
    /\ \E capacity \in F14Capacities :
       \E n \in 0..Len(F14V2First) :
       \E w \in {AfterF14First(capacity, n)} :
          /\ ht = w.ht
          /\ allocator = w.allocator
          /\ present = [k \in F14V2Keys |->
                          IF \E i \in 1..n : F14V2First[i] = k THEN 1 ELSE UINTPTR_MAX]
    /\ pool = ThreadSafeKeyPool(InitialPoolSize)
    /\ last = [op |-> "none", key |-> KeyEmpty, val |-> 0, ret |-> 0, outside |-> FALSE,
               key_slots |-> {}, before |-> UINTPTR_MAX, size0 |-> 0]
    /\ inserted = {}
    /\ removed = {}
    /\ fresh = TRUE
    /\ nops = 0
    /\ thr = Idle
    /\ batch = NoBatch
    /\ freed = << >>
    /\ gc = NoGc

NextF14 ==
    \/ \E key \in F14V2Keys, val \in Values : F14Insert(key, val)
    \/ \E key \in F14V2Keys : F14Remove(key)
    \/ \E key \in F14V2Keys : F14Lookup(key)

SpecF14 == InitF14 /\ [][NextF14]_vars

\* C33: ClhtStrF14 collision survival.  When more than 6 distinct keys hash
\* to one chunk, every key whose insert returned true, those in an overflow
\* chunk included, is returned by lookup with its value, is updated in place
\* by a second insert (the size stays), is removed by remove, and every
\* index used on key_ptrs_ and key_lengths_ lies inside the arrays.
C33_F14CollisionSurvival ==
    /\ \A g \in last.key_slots :
          g >= 0 /\ g < ht.chunk_count_ * F14_FINAL_ENTRIES
    /\ (last.op = "lookup" /\ ~last.outside) => last.ret = present[last.key]
    /\ (last.op = "insert" /\ ~last.outside /\ last.before # UINTPTR_MAX)
          => (last.ret = TRUE /\ ht.num_elements = last.size0)
    /\ (last.op = "remove" /\ ~last.outside /\ last.before # UINTPTR_MAX)
          => (last.ret = TRUE /\ ht.num_elements = last.size0 - 1)
====
